---- MODULE Spec2Model ----
(***************************************************************************)
(* A model of virtue's token builder (generate/stream_builder.rs), of its  *)
(* nested generator scopes (generate/*.rs), of the bracket scanner of the  *)
(* declaration parser (parse/utils.rs), of the parser (parse/*.rs) and of  *)
(* the conversion of an Error into tokens (error.rs).                      *)
(*                                                                         *)
(* Five specifications share the module:                                   *)
(*   SpecBuilder  calls on one StreamBuilder                               *)
(*   SpecScan     one run of read_tokens_until_punct                       *)
(*   SpecGen      a derive function driving a Generator and its scopes     *)
(*   SpecParse    one call of Parse::new, stage by stage                   *)
(*   SpecError    one Error turned into a TokenStream                      *)
(***************************************************************************)
EXTENDS Integers, Sequences, FiniteSets, TLC

VARIABLES
    \* --- SpecBuilder: one StreamBuilder and the last call made on it
    builder,        \* StreamBuilder.stream, a sequence of tokens
    ret,            \* what the last call returned: [st, err]
    prev,           \* history: builder before the last call
    call,           \* history: the last call and its arguments
    \* --- SpecScan: read_tokens_until_punct(input, expected_puncts)
    input,          \* the Peekable iterator: the tokens not yet consumed
    expected_puncts,\* the terminator characters, in the caller's order
    result,         \* Vec<TokenTree> of copied tokens
    open_brackets,  \* Vec<char>, the stack of opening brackets
    scan,           \* "loop", or how the function ended: "Ok", "Err", "Panic"
    source,         \* history: the input the scan started from
    \* --- SpecGen: a derive function using a Generator
    scopes,         \* the live scope objects, outermost (the Generator) first
    mode,           \* position of the derive function
    returned,       \* the Error it returned with `?`, NoError while it has not
    gen_drop,       \* what Drop for Generator did
    output,         \* the TokenStream returned by Generator::finish
    ops,            \* the number of builder calls the derive function made
    closed,         \* history: the last scope dropped
    \* --- SpecParse: Parse::new(input)
    decl,           \* the TokenStream given to Parse::new
    cursor,         \* `source`: the tokens not yet consumed
    stage,          \* the stage Parse::new is about to run, or how it ended
    parsed,         \* the values the stages returned, as Parse holds them
    perr,           \* the Error that Parse::new returns
    ran,            \* history: the stages run, with where each began
    written,        \* history: the declaration the tokens were made from
    \* --- SpecError: Error::into_token_stream, Error::throw_with_span
    error,          \* the Error value
    thrown          \* the call made on it and the TokenStream it returned

builderVars == <<builder, ret, prev, call>>
scanVars == <<input, expected_puncts, result, open_brackets, scan, source>>
genVars == <<scopes, mode, returned, gen_drop, output, ops, closed>>
parseVars == <<decl, cursor, stage, parsed, perr, ran, written>>
errVars == <<error, thrown>>
vars == <<builderVars, scanVars, genVars, parseVars, errVars>>

----------------------------------------------------------------------------
(* Bounds of the model *)

\* longest token text handed to push_parsed
MaxText == 2
\* most tokens a builder holds before the model stops calling it
MaxStream == 2
\* longest token sequence given to the scanner
MaxInput == 4
\* most builder calls (scopes opened, items added) of one derive function
MaxOps == 3

\* the width in bits of the signed integer type that stands for i64
IntBits == 4

\* the most generic parameters, fields and variants a declaration is given
MaxParams == 2

MaxFields == 2

MaxVariants == 2

----------------------------------------------------------------------------
(* Tokens: proc_macro's TokenTree.  c is the identifier, the punctuation  *)
(* character, the literal or the delimiter; s is a Group's inner stream.   *)

Tok(k, c, s) ==
    [k |-> k, c |-> c, s |-> s]

Ident(name) ==
    Tok("Ident", name, <<>>)

Punct(ch) ==
    Tok("Punct", ch, <<>>)

Group(delim, inner) ==
    Tok("Group", delim, inner)

\* the sequences over S of length at most n
SeqUpTo(S, n) ==
    UNION {[1..m -> S] : m \in 0..n}

RECURSIVE Concat(_)
\* the concatenation of a sequence of token sequences
Concat(ss) ==
    IF ss = <<>> THEN <<>> ELSE Head(ss) \o Concat(Tail(ss))

----------------------------------------------------------------------------
(* TokenStream::from_str, the host lexer, on a text given as its lexemes.  *)
(* A text tokenizes iff its parentheses balance; a balanced "(" .. ")"     *)
(* becomes one Group token.                                                *)

Lexemes == {"a", ",", "(", ")"}

LexPuncts == {",", "<", ">", "-"}

Texts ==
    SeqUpTo(Lexemes, MaxText)

LexTok(x) ==
    IF x \in LexPuncts THEN Punct(x) ELSE Ident(x)

RECURSIVE LexFrom(_, _)
\* stack[1] is the enclosing stream, Last(stack) the innermost open group
LexFrom(text, stack) ==
    IF text = <<>>
    THEN IF Len(stack) = 1
         THEN [ok |-> TRUE, toks |-> stack[1]]
         ELSE [ok |-> FALSE, toks |-> <<>>]
    ELSE LET x == Head(text)
             n == Len(stack)
         IN  IF x = "("
             THEN LexFrom(Tail(text), Append(stack, <<>>))
             ELSE IF x = ")"
             THEN IF n = 1
                  THEN [ok |-> FALSE, toks |-> <<>>]
                  ELSE LexFrom(Tail(text),
                           [SubSeq(stack, 1, n - 1) EXCEPT
                               ![n - 1] = Append(@, Group("Parenthesis", stack[n]))])
             ELSE LexFrom(Tail(text), [stack EXCEPT ![n] = Append(@, LexTok(x))])

FromStr(text) ==
    LexFrom(text, << <<>> >>)

----------------------------------------------------------------------------
(* crate::Error and Result *)

NoError ==
    [kind |-> "None", code |-> <<>>]

CustomError ==
    [kind |-> "Custom", code |-> <<>>]

\* Error::PushParse(PushParseError { error, code })
PushParseError(text) ==
    [kind |-> "PushParse", code |-> text]

\* a Result<&mut StreamBuilder>: the outcome, the builder's stream, the error
Res(st, s, err) ==
    [st |-> st, stream |-> s, err |-> err]

----------------------------------------------------------------------------
(* StreamBuilder *)

\* StreamBuilder::push
SB_push(s, tok) ==
    s \o <<tok>>

\* StreamBuilder::append
SB_append(s, b) ==
    s \o b

\* StreamBuilder::ident_str
SB_ident_str(s, name) ==
    s \o <<Ident(name)>>

\* StreamBuilder::punct
SB_punct(s, ch) ==
    s \o <<Punct(ch)>>

\* a push_parsed that unwraps the lexer's result
SB_push_parsed_unwrap(s, text) ==
    LET r == FromStr(text)
    IN  IF r.ok
        THEN Res("Ok", s \o r.toks, NoError)
        ELSE Res("Panic", s, NoError)

\* StreamBuilder::push_parsed
SB_push_parsed(s, text) ==
    LET r == FromStr(text)
    IN  IF r.ok
        THEN Res("Ok", s \o r.toks, NoError)
        ELSE Res("Err", s, PushParseError(text))

\* A construction callback FnOnce(&mut StreamBuilder) -> Result: it pushes
\* toks onto the builder it is given and then returns res.
Callbacks ==
    [toks : SeqUpTo({Ident("a")}, 1), res : {"Ok", "Err", "Panic"}, err : {CustomError}]
        \cup [toks : {<<>>}, res : {"Err"}, err : {PushParseError(<<"(">>)}]

RunCallback(cb, s) ==
    Res(cb.res, s \o cb.toks, IF cb.res = "Err" THEN cb.err ELSE NoError)

\* a group that appends whatever the callback left behind
SB_group_eager(s, delim, cb) ==
    LET inner == RunCallback(cb, <<>>)
    IN  Res(inner.st, s \o <<Group(delim, inner.stream)>>, inner.err)

\* StreamBuilder::group
SB_group(s, delim, cb) ==
    LET inner == RunCallback(cb, <<>>)
    IN  IF inner.st = "Ok"
        THEN Res("Ok", s \o <<Group(delim, inner.stream)>>, NoError)
        ELSE Res(inner.st, s, inner.err)

Delimiters == {"Parenthesis", "Brace", "Bracket", "None"}

----------------------------------------------------------------------------
(* SpecBuilder: calls on one StreamBuilder *)

NoCall ==
    [op |-> "new", text |-> <<>>, delim |-> "None", cb |-> [toks |-> <<>>, res |-> "Ok", err |-> CustomError]]

BuilderIdle ==
    /\ builder = <<>>
    /\ ret = [st |-> "Ok", err |-> NoError]
    /\ prev = <<>>
    /\ call = NoCall

\* the builder can be called: the last call did not panic, and the model's
\* bound on the stream is not reached
Callable ==
    /\ ret.st # "Panic"
    /\ Len(builder) < MaxStream

Returned(r, c) ==
    /\ builder' = r.stream
    /\ ret' = [st |-> r.st, err |-> r.err]
    /\ prev' = builder
    /\ call' = c

CallPunct ==
    /\ Callable
    /\ \E ch \in {",", "-"} :
        Returned(Res("Ok", SB_punct(builder, ch), NoError), [NoCall EXCEPT !.op = "punct"])
    /\ UNCHANGED <<scanVars, genVars, parseVars, errVars>>

CallIdentStr ==
    /\ Callable
    /\ Returned(Res("Ok", SB_ident_str(builder, "a"), NoError), [NoCall EXCEPT !.op = "ident_str"])
    /\ UNCHANGED <<scanVars, genVars, parseVars, errVars>>

CallPushParsed ==
    /\ Callable
    /\ \E text \in Texts :
        Returned(SB_push_parsed(builder, text),
                 [NoCall EXCEPT !.op = "push_parsed", !.text = text])
    /\ UNCHANGED <<scanVars, genVars, parseVars, errVars>>

CallGroup ==
    /\ Callable
    /\ \E delim \in Delimiters, cb \in Callbacks :
        Returned(SB_group(builder, delim, cb),
                 [NoCall EXCEPT !.op = "group", !.delim = delim, !.cb = cb])
    /\ UNCHANGED <<scanVars, genVars, parseVars, errVars>>

----------------------------------------------------------------------------
(* parse/utils.rs: read_tokens_until_punct *)

OPEN_BRACKETS ==
    <<"<", "(", "[", "{">>

CLOSING_BRACKETS ==
    <<">", ")", "]", "}">>

\* Option<Delimiter> per opening bracket; NoDelimiter is Option::None
BRACKET_DELIMITER ==
    <<"NoDelimiter", "Parenthesis", "Bracket", "Brace">>

\* slice.iter().position(|c| c == ch): the first index holding ch, 0 for None
Position(sq, ch) ==
    IF \E i \in 1..Len(sq) : sq[i] = ch
    THEN CHOOSE i \in 1..Len(sq) : sq[i] = ch /\ \A j \in 1..(i - 1) : sq[j] # ch
    ELSE 0

Contains(sq, ch) ==
    \E i \in 1..Len(sq) : sq[i] = ch

\* a scanner that knows no arrows
check_if_arrow_never(tokens, punct) ==
    FALSE

\* check_if_arrow(tokens, punct)
check_if_arrow(tokens, punct) ==
    /\ punct.c = ">"
    /\ tokens # <<>>
    /\ tokens[Len(tokens)].k = "Punct"
    /\ tokens[Len(tokens)].c = "-"

\* What one iteration decides: copy the token (with the stack it leaves),
\* break out of the loop, return Err, or panic.
Step(act, stack) ==
    [act |-> act, stack |-> stack]

\* the Punct arm with the terminator test ignoring the bracket stack
PunctArm_no_depth(tokens, stack, punct, expected) ==
    IF Contains(expected, punct.c) THEN Step("break", stack) ELSE Step("copy", stack)

\* the Punct arm with an unmatched closing bracket copied like any token
PunctArm_lenient(tokens, stack, punct, expected) ==
    IF Contains(OPEN_BRACKETS, punct.c)
    THEN Step("copy", Append(stack, punct.c))
    ELSE IF Contains(expected, punct.c) /\ stack = <<>>
    THEN Step("break", stack)
    ELSE Step("copy", SubSeq(stack, 1, Len(stack) - 1))

\* the Punct arm of the loop
PunctArm(tokens, stack, punct, expected) ==
    IF check_if_arrow(tokens, punct)
    THEN Step("copy", stack)
    ELSE IF Contains(OPEN_BRACKETS, punct.c)
    THEN Step("copy", Append(stack, punct.c))
    ELSE IF Position(CLOSING_BRACKETS, punct.c) # 0
    THEN LET index == Position(CLOSING_BRACKETS, punct.c)
         IN  IF stack = <<>>
             THEN IF Contains(expected, punct.c)
                  THEN Step("break", stack)
                  ELSE Step("err", stack)
             ELSE LET last_bracket == stack[Len(stack)]
                      popped == SubSeq(stack, 1, Len(stack) - 1)
                  IN  IF OPEN_BRACKETS[index] # last_bracket
                      THEN Step("panic", popped)
                      ELSE Step("copy", popped)
    ELSE IF Contains(expected, punct.c) /\ stack = <<>>
    THEN Step("break", stack)
    ELSE Step("copy", stack)

\* the Group arm splitting on every group
GroupArm_any(g, expected) ==
    Step("break", <<>>)

\* the Group arm, entered when the stack is empty
GroupArm(g, expected) ==
    IF \E i \in 1..Len(expected) :
          LET idx == Position(OPEN_BRACKETS, expected[i])
          IN  /\ idx # 0
              /\ BRACKET_DELIMITER[idx] # "NoDelimiter"
              /\ BRACKET_DELIMITER[idx] = g.c
    THEN Step("break", <<>>)
    ELSE Step("copy", <<>>)

ScanPuncts == {"<", ">", ",", "-", "(", ")"}

ScanTokens ==
    {Punct(ch) : ch \in ScanPuncts}
        \cup {Ident("T"), Group("Parenthesis", <<Punct(",")>>), Group("Bracket", <<>>)}

\* the terminator sets the parser passes: generics.rs:380, generics.rs:497, body.rs:481
TerminatorSets ==
    {<<",", ">">>, <<"{", "(">>, <<",">>}

ScanIdle ==
    /\ input = <<>>
    /\ expected_puncts = <<>>
    /\ result = <<>>
    /\ open_brackets = <<>>
    /\ scan = "Ok"
    /\ source = <<>>

ScanStart ==
    /\ input \in SeqUpTo(ScanTokens, MaxInput)
    /\ expected_puncts \in TerminatorSets
    /\ result = <<>>
    /\ open_brackets = <<>>
    /\ scan = "loop"
    /\ source = input

\* the effect of one iteration that decided d
Decide(d) ==
    /\ open_brackets' = d.stack
    /\ IF d.act = "copy"
       THEN /\ result' = Append(result, Head(input))
            /\ input' = Tail(input)
            /\ scan' = "loop"
       ELSE /\ result' = result
            /\ input' = input
            /\ scan' = (CASE d.act = "break" -> "Ok"
                          [] d.act = "err" -> "Err"
                          [] OTHER -> "Panic")
    /\ UNCHANGED <<expected_puncts, source>>

\* Some(TokenTree::Punct(punct))
ScanPunct ==
    /\ scan = "loop"
    /\ input # <<>>
    /\ Head(input).k = "Punct"
    /\ Decide(PunctArm(result, open_brackets, Head(input), expected_puncts))
    /\ UNCHANGED <<builderVars, genVars, parseVars, errVars>>

\* Some(TokenTree::Group(g)) if open_brackets.is_empty()
ScanGroup ==
    /\ scan = "loop"
    /\ input # <<>>
    /\ Head(input).k = "Group"
    /\ open_brackets = <<>>
    /\ Decide(GroupArm(Head(input), expected_puncts))
    /\ UNCHANGED <<builderVars, genVars, parseVars, errVars>>

\* Some(_)
ScanOther ==
    /\ scan = "loop"
    /\ input # <<>>
    /\ Head(input).k # "Punct"
    /\ ~(Head(input).k = "Group" /\ open_brackets = <<>>)
    /\ Decide(Step("copy", open_brackets))
    /\ UNCHANGED <<builderVars, genVars, parseVars, errVars>>

\* None
ScanEnd ==
    /\ scan = "loop"
    /\ input = <<>>
    /\ scan' = "Ok"
    /\ UNCHANGED <<input, expected_puncts, result, open_brackets, source>>
    /\ UNCHANGED <<builderVars, genVars, parseVars, errVars>>


----------------------------------------------------------------------------
(* parse/generics.rs: how Generics and GenericConstraints are rendered *)

\* Option<Generics>: absent, or a list of [kind, ident, constraints]
NoGenerics ==
    [some |-> FALSE, list |-> <<>>]

SomeGenerics(list) ==
    [some |-> TRUE, list |-> list]

\* Option<GenericConstraints>: absent, or the where-clause's tokens
NoConstraints ==
    [some |-> FALSE, constraints |-> <<>>]

SomeConstraints(toks) ==
    [some |-> TRUE, constraints |-> toks]

\* StreamBuilder::lifetime
SB_lifetime(s, name) ==
    s \o <<Punct("'"), Ident(name)>>

\* Generic::append_to_result_with_constraints
append_to_result_with_constraints(g, s) ==
    LET named == CASE g.kind = "Lifetime" -> SB_lifetime(s, g.ident)
                   [] g.kind = "Generic" -> s \o <<Ident(g.ident)>>
                   [] OTHER -> s \o <<Ident("const"), Ident(g.ident)>>
        has_constraints == g.kind = "Const" \/ g.constraints # <<>>
    IN  IF has_constraints
        THEN SB_punct(named, ":") \o g.constraints
        ELSE named

RECURSIVE impl_generics_from(_, _, _)
impl_generics_from(list, idx, s) ==
    IF idx > Len(list)
    THEN s
    ELSE impl_generics_from(list, idx + 1,
            append_to_result_with_constraints(list[idx],
                IF idx > 1 THEN SB_punct(s, ",") ELSE s))

\* Generics::impl_generics
impl_generics(list) ==
    SB_punct(impl_generics_from(list, 1, SB_punct(<<>>, "<")), ">")

RECURSIVE type_generics_from_bounds(_, _, _)
\* a use-position rendering that keeps the bound lists
type_generics_from_bounds(list, idx, s) ==
    IF idx > Len(list)
    THEN s
    ELSE type_generics_from_bounds(list, idx + 1,
            append_to_result_with_constraints(list[idx],
                IF idx > 1 THEN SB_punct(s, ",") ELSE s))

RECURSIVE type_generics_from(_, _, _)
type_generics_from(list, idx, s) ==
    IF idx > Len(list)
    THEN s
    ELSE LET sep == IF idx > 1 THEN SB_punct(s, ",") ELSE s
         IN  type_generics_from(list, idx + 1,
                IF list[idx].kind = "Lifetime"
                THEN SB_lifetime(sep, list[idx].ident)
                ELSE sep \o <<Ident(list[idx].ident)>>)

\* Generics::type_generics
type_generics(list) ==
    SB_punct(type_generics_from(list, 1, SB_punct(<<>>, "<")), ">")

\* Generics::has_lifetime
has_lifetime(list) ==
    \E i \in 1..Len(list) : list[i].kind = "Lifetime"

RECURSIVE lifetime_bounds_from(_, _, _)
\* the inner loop over the declaration's own lifetimes: ':' before the first,
\* '+' before every later one
lifetime_bounds_from(lts, idx, s) ==
    IF idx > Len(lts)
    THEN s
    ELSE lifetime_bounds_from(lts, idx + 1,
            SB_lifetime(SB_punct(s, IF idx = 1 THEN ":" ELSE "+"), lts[idx].ident))

RECURSIVE every_generic_from(_, _, _)
\* the inner loop over every parameter: ',' and the parameter with its bounds
every_generic_from(list, idx, s) ==
    IF idx > Len(list)
    THEN s
    ELSE every_generic_from(list, idx + 1,
            append_to_result_with_constraints(list[idx], SB_punct(s, ",")))

RECURSIVE additional_lifetimes_from(_, _, _, _)
\* the loop over the added lifetimes; both inner loops run inside it
additional_lifetimes_from(list, lifetime, idx, s) ==
    IF idx > Len(lifetime)
    THEN s
    ELSE LET Bounds(named) ==
                 IF has_lifetime(list)
                 THEN lifetime_bounds_from(
                          SelectSeq(list, LAMBDA g : g.kind = "Lifetime"), 1, named)
                 ELSE named
         IN  additional_lifetimes_from(list, lifetime, idx + 1,
                every_generic_from(list, 1,
                    Bounds(SB_lifetime(SB_punct(s, IF idx = 1 THEN "<" ELSE ","),
                                       lifetime[idx]))))

\* Generics::impl_generics_with_additional_lifetimes
impl_generics_with_additional_lifetimes(list, lifetime) ==
    SB_punct(additional_lifetimes_from(list, lifetime, 1, <<>>), ">")

\* GenericConstraints::where_clause
where_clause(c) ==
    SB_ident_str(<<>>, "where") \o c.constraints

\* GenericConstraints::push_constraint: Ok with the clause it leaves, or the
\* error of push_parsed with the clause as it was
push_constraint(constraints, generic, text) ==
    LET Pushed(r) ==
            IF r.st # "Ok"
            THEN Res("Err", constraints, r.err)
            ELSE Res("Ok", constraints \o r.stream, NoError)
    IN  Pushed(SB_push_parsed(
                   SB_punct((IF constraints # <<>> THEN SB_punct(<<>>, ",") ELSE <<>>)
                                \o <<Ident(generic.ident)>>, ":"),
                   text))

\* GenericConstraints::push_parsed_constraint
push_parsed_constraint(constraints, text) ==
    LET Pushed(r) ==
            IF r.st # "Ok"
            THEN Res("Err", constraints, r.err)
            ELSE Res("Ok", constraints \o r.stream, NoError)
    IN  Pushed(SB_push_parsed(
                   IF constraints # <<>> THEN SB_punct(<<>>, ",") ELSE <<>>,
                   text))

\* GenericConstraints::clear
clear(constraints) ==
    Res("Ok", <<>>, NoError)

\* Generics::iter_generics: the simple type parameters
iter_generics(list) ==
    SelectSeq(list, LAMBDA g : g.kind = "Generic")

\* A callback FnOnce(&Generics, &mut GenericConstraints) -> Result: it makes
\* one call on the constraints, returns that call's error with `?`, and
\* otherwise returns res.
ConstraintCallbacks ==
    [op : {"push_constraint", "push_parsed_constraint", "clear"},
     text : {<<"a">>, <<"(">>}, res : {"Ok", "Err"}]

RunConstraintCallback(cb, list, constraints) ==
    LET Answered(r) ==
            IF r.st # "Ok"
            THEN r
            ELSE Res(cb.res, r.stream, IF cb.res = "Err" THEN CustomError ELSE NoError)
    IN  Answered(CASE cb.op = "push_constraint" /\ iter_generics(list) # <<>> ->
                          push_constraint(constraints, iter_generics(list)[1], cb.text)
                   [] cb.op = "push_parsed_constraint" ->
                          push_parsed_constraint(constraints, cb.text)
                   [] OTHER -> clear(constraints))

----------------------------------------------------------------------------
(* generate/*.rs: the Generator and the scopes opened on it *)

\* One live scope object.  Every kind carries every field; a kind leaves the
\* fields it does not have empty.
\*   stream      Generator.stream, GenerateMod.content
\*   lifetimes   ImplFor.lifetimes, an Option
\*   fields      GenStruct.fields, each [name, vis, ty] with ty a text
\*   additional  GenStruct.additional, GenEnum.additional
\*   at_open     history: the parent's buffer when the scope was opened
\*   idx, kids   history: the scope's place among its parent's children, and
\*               what each child of this scope appended to it
\*   items       history: the member items of an Impl or ImplFor in the order
\*               they were constructed, each [kind, toks, by] with by the
\*               builder the item was made from
\*   attr_texts  history: the attributes given to impl_outer_attr and
\*               impl_inner_attr that were stored, each [kind, text]
\*   calls       history: the calls of modify_generic_constraints that ran
\*               their callback, each with the constraints the callback
\*               received and left, what it returned, and the stored custom
\*               constraints before and after the call
Scope(kind, name) ==
    [kind |-> kind, name |-> name,
     generics |-> NoGenerics, generic_constraints |-> NoConstraints,
     custom_generic_constraints |-> NoConstraints,
     lifetimes |-> [some |-> FALSE, list |-> <<>>],
     visibility |-> "Default", fields |-> <<>>, struct_type |-> "Named",
     stream |-> <<>>, additional |-> <<>>, uses |-> <<>>,
     outer_attr |-> <<>>, inner_attr |-> <<>>, impl_types |-> <<>>,
     consts |-> <<>>, fns |-> <<>>,
     at_open |-> <<>>, idx |-> 0, kids |-> <<>>, items |-> <<>>, calls |-> <<>>,
     attr_texts |-> <<>>]

\* the kinds that implement the Parent trait
ParentKinds == {"Generator", "Mod", "Struct", "Enum"}

\* Parent::append that puts the child's tokens in front
ParentAppend_front(p, b) ==
    IF p.kind \in {"Struct", "Enum"}
    THEN [p EXCEPT !.additional = <<b>> \o @]
    ELSE [p EXCEPT !.stream = b \o @]

\* Parent::append that takes the child's tokens twice
ParentAppend_twice(p, b) ==
    IF p.kind \in {"Struct", "Enum"}
    THEN [p EXCEPT !.additional = @ \o <<b, b>>]
    ELSE [p EXCEPT !.stream = @ \o b \o b]

\* Parent::append of Generator, GenerateMod, GenStruct and GenEnum
ParentAppend(p, b) ==
    IF p.kind \in {"Struct", "Enum"}
    THEN [p EXCEPT !.additional = Append(@, b)]
    ELSE [p EXCEPT !.stream = SB_append(@, b)]

\* the tokens a parent has received from its children
ParentBuffer(p) ==
    IF p.kind \in {"Struct", "Enum"} THEN Concat(p.additional) ELSE p.stream

\* Parent::generics: only the Generator has any
ParentGenerics(p) ==
    IF p.kind = "Generator" THEN p.generics ELSE NoGenerics

\* Parent::generic_constraints
ParentConstraints(p) ==
    IF p.kind = "Generator" THEN p.generic_constraints ELSE NoConstraints

\* one function: its definition, then its body as a brace group
FnItem(f) ==
    f.def \o <<Group("Brace", f.body)>>

RECURSIVE FnItems_reversed(_)
\* the functions, last one first
FnItems_reversed(fns) ==
    IF fns = <<>>
    THEN <<>>
    ELSE FnItems_reversed(Tail(fns)) \o FnItem(Head(fns))

RECURSIVE FnItems(_)
\* each function: its definition, then its body as a brace group
FnItems(fns) ==
    IF fns = <<>>
    THEN <<>>
    ELSE FnItem(Head(fns)) \o FnItems(Tail(fns))

\* the where-clause of an impl block: the scope's own, else the parent's
ImplWhere(sc, p) ==
    IF sc.custom_generic_constraints.some
    THEN where_clause(sc.custom_generic_constraints)
    ELSE IF ParentConstraints(p).some
    THEN where_clause(ParentConstraints(p))
    ELSE <<>>

\* Drop for Impl, after the panicking() test: Ok with the tokens handed to
\* parent.append, or Panic when an unwrap failed
ImplTokens(sc, p) ==
    LET g == ParentGenerics(p)
        head == SB_ident_str(Concat(sc.outer_attr), "impl")
                    \o (IF g.some THEN impl_generics(g.list) ELSE <<>>)
        named == SB_push_parsed(head, sc.name)
    IN  IF named.st # "Ok"
        THEN Res("Panic", <<>>, NoError)
        ELSE Res("Ok",
                 named.stream
                    \o (IF g.some THEN type_generics(g.list) ELSE <<>>)
                    \o ImplWhere(sc, p)
                    \o <<Group("Brace",
                           Concat(sc.inner_attr) \o Concat(sc.consts) \o FnItems(sc.fns))>>,
                 NoError)

RECURSIVE append_lifetimes_from(_, _, _)
append_lifetimes_from(s, lifetimes, idx) ==
    IF idx > Len(lifetimes)
    THEN s
    ELSE append_lifetimes_from(
            SB_lifetime(SB_punct(s, IF idx = 1 THEN "<" ELSE ","), lifetimes[idx]),
            lifetimes, idx + 1)

\* append_lifetimes of impl_for.rs
append_lifetimes(s, lifetimes) ==
    SB_punct(append_lifetimes_from(s, lifetimes, 1), ">")

\* the impl-position list of generate_fn_definition
ImplForGenerics(sc, g) ==
    IF sc.lifetimes.some
    THEN IF g.some
         THEN impl_generics_with_additional_lifetimes(g.list, sc.lifetimes.list)
         ELSE append_lifetimes(<<>>, sc.lifetimes.list)
    ELSE IF g.some
    THEN impl_generics(g.list)
    ELSE <<>>

\* Drop for ImplFor with generate_fn_definition, after the panicking() test
ImplForTokens(sc, p) ==
    LET g == ParentGenerics(p)
        head == SB_ident_str(<<>>, "impl") \o ImplForGenerics(sc, g)
        named == SB_push_parsed(head, sc.name)
    IN  IF named.st # "Ok"
        THEN Res("Panic", <<>>, NoError)
        ELSE Res("Ok",
                 SB_ident_str(IF sc.lifetimes.some
                              THEN append_lifetimes(named.stream, sc.lifetimes.list)
                              ELSE named.stream, "for")
                    \o <<Ident(p.name[1])>>
                    \o (IF g.some THEN type_generics(g.list) ELSE <<>>)
                    \o ImplWhere(sc, p)
                    \o <<Group("Brace",
                           Concat(sc.impl_types) \o Concat(sc.consts) \o FnItems(sc.fns))>>,
                 NoError)

\* GenStruct's StructField
StructField(name, vis, ty) ==
    [name |-> name, vis |-> vis, ty |-> ty]

RECURSIVE NamedFieldTokens_private(_, _, _)
\* a callback for the named shape that leaves every field private
NamedFieldTokens_private(fields, idx, b) ==
    IF idx > Len(fields)
    THEN Res("Ok", b, NoError)
    ELSE LET Typed(r) ==
                 IF r.st # "Ok"
                 THEN r
                 ELSE NamedFieldTokens_private(fields, idx + 1, SB_punct(r.stream, ","))
         IN  Typed(SB_push_parsed(
                     SB_punct(SB_ident_str(b, fields[idx].name), ":"),
                     fields[idx].ty))

RECURSIVE NamedFieldTokens_no_comma(_, _, _)
\* a callback for the named shape that puts no ',' after a field
NamedFieldTokens_no_comma(fields, idx, b) ==
    IF idx > Len(fields)
    THEN Res("Ok", b, NoError)
    ELSE LET Typed(r) ==
                 IF r.st # "Ok"
                 THEN r
                 ELSE NamedFieldTokens_no_comma(fields, idx + 1, r.stream)
         IN  Typed(SB_push_parsed(
                     SB_punct(SB_ident_str(IF fields[idx].vis = "Pub"
                                           THEN SB_ident_str(b, "pub")
                                           ELSE b,
                                           fields[idx].name), ":"),
                     fields[idx].ty))

RECURSIVE NamedFieldTokens(_, _, _)
\* the callback of the brace group of a struct with named fields
NamedFieldTokens(fields, idx, b) ==
    IF idx > Len(fields)
    THEN Res("Ok", b, NoError)
    ELSE LET Typed(r) ==
                 IF r.st # "Ok"
                 THEN r
                 ELSE NamedFieldTokens(fields, idx + 1, SB_punct(r.stream, ","))
         IN  Typed(SB_push_parsed(
                     SB_punct(SB_ident_str(IF fields[idx].vis = "Pub"
                                           THEN SB_ident_str(b, "pub")
                                           ELSE b,
                                           fields[idx].name), ":"),
                     fields[idx].ty))

RECURSIVE UnnamedFieldTokens(_, _, _)
\* the callback of the parenthesis group of a tuple struct
UnnamedFieldTokens(fields, idx, b) ==
    IF idx > Len(fields)
    THEN Res("Ok", b, NoError)
    ELSE LET Typed(r) ==
                 IF r.st # "Ok"
                 THEN r
                 ELSE UnnamedFieldTokens(fields, idx + 1, SB_punct(r.stream, ","))
         IN  Typed(SB_push_parsed(IF fields[idx].vis = "Pub"
                                  THEN SB_ident_str(b, "pub")
                                  ELSE b,
                                  fields[idx].ty))

\* Drop for GenStruct: Ok with the tokens handed to parent.append, or Panic
\* when the expect on a group failed
StructTokens(sc) ==
    LET head == SB_ident_str(IF sc.visibility = "Pub"
                             THEN SB_ident_str(<<>>, "pub")
                             ELSE <<>>, "struct")
                    \o <<Ident(sc.name[1])>>
        Named(r) ==
            IF r.st # "Ok"
            THEN Res("Panic", <<>>, NoError)
            ELSE Res("Ok",
                     head \o <<Group("Brace", r.stream)>> \o Concat(sc.additional),
                     NoError)
        Unnamed(r) ==
            IF r.st # "Ok"
            THEN Res("Panic", <<>>, NoError)
            ELSE Res("Ok",
                     SB_punct(head \o <<Group("Parenthesis", r.stream)>>, ";")
                        \o Concat(sc.additional),
                     NoError)
    IN  CASE sc.struct_type = "Named" -> Named(NamedFieldTokens(sc.fields, 1, <<>>))
          [] sc.struct_type = "Unnamed" -> Unnamed(UnnamedFieldTokens(sc.fields, 1, <<>>))
          [] OTHER -> Res("Ok", SB_punct(head, ";") \o Concat(sc.additional), NoError)

\* Drop for GenEnum: a private enum, no value added
EnumTokens(sc) ==
    Res("Ok",
        SB_ident_str(<<>>, "enum") \o <<Ident(sc.name[1]), Group("Brace", <<>>)>>
            \o Concat(sc.additional),
        NoError)

\* Drop for GenerateMod
ModTokens(sc) ==
    Res("Ok",
        SB_ident_str(<<>>, "mod")
            \o <<Ident(sc.name[1]), Group("Brace", Concat(sc.uses) \o sc.stream)>>,
        NoError)

\* whether the scope's drop goes on to build and append its tokens: Impl and
\* ImplFor return at once when std::thread::panicking()
Flushes(sc, panicking) ==
    ~(sc.kind \in {"Impl", "ImplFor"} /\ panicking)

\* the tokens a scope's drop builds
DropTokens(sc, p) ==
    CASE sc.kind = "Impl" -> ImplTokens(sc, p)
      [] sc.kind = "ImplFor" -> ImplForTokens(sc, p)
      [] sc.kind = "Struct" -> StructTokens(sc)
      [] sc.kind = "Enum" -> EnumTokens(sc)
      [] OTHER -> ModTokens(sc)


\* the callback |builder| { builder.push_parsed(text)?; Ok(()) }
PushParsedCallback(text) ==
    LET Pushed(r) ==
            [toks |-> r.stream, res |-> r.st, err |-> r.err]
    IN  Pushed(SB_push_parsed(<<>>, text))

\* builder.punct('#').group(Bracket, ..) of an attribute loop
HashBracket(s, text) ==
    SB_group(SB_punct(s, "#"), "Bracket", PushParsedCallback(text))

\* the fields of an FnBuilder when body is called, for a private, non-async
\* function without lifetimes and without a self argument; generics are
\* [name, deps], args are [name, ty], no return type is <<>>
FnBuilder(attrs, generics, args, return_type) ==
    [name |-> "f", attrs |-> attrs, generics |-> generics, args |-> args,
     return_type |-> return_type]

RECURSIVE FnAttrs(_, _, _)
\* the attribute loop of FnBuilder::body
FnAttrs(attrs, idx, b) ==
    IF idx > Len(attrs)
    THEN Res("Ok", b, NoError)
    ELSE LET Grouped(r) ==
                 IF r.st # "Ok" THEN r ELSE FnAttrs(attrs, idx + 1, r.stream)
         IN  Grouped(HashBracket(b, attrs[idx]))

RECURSIVE FnDependencies(_, _, _)
\* the dependencies of one generic: ':' before the first, '+' before the others
FnDependencies(deps, idx, b) ==
    IF idx > Len(deps)
    THEN Res("Ok", b, NoError)
    ELSE LET Pushed(r) ==
                 IF r.st # "Ok" THEN r ELSE FnDependencies(deps, idx + 1, r.stream)
         IN  Pushed(SB_push_parsed(SB_punct(b, IF idx = 1 THEN ":" ELSE "+"),
                                   deps[idx]))

RECURSIVE FnGenerics(_, _, _)
\* the loop over the generics of FnBuilder::body, between '<' and '>'
FnGenerics(generics, idx, b) ==
    IF idx > Len(generics)
    THEN Res("Ok", b, NoError)
    ELSE LET Bound(r) ==
                 IF r.st # "Ok" THEN r ELSE FnGenerics(generics, idx + 1, r.stream)
         IN  Bound(FnDependencies(generics[idx].deps, 1,
                       SB_ident_str(IF idx = 1 THEN b ELSE SB_punct(b, ","),
                                    generics[idx].name)))

RECURSIVE FnArgs(_, _, _)
\* the loop over the arguments inside the parenthesis group
FnArgs(args, idx, b) ==
    IF idx > Len(args)
    THEN Res("Ok", b, NoError)
    ELSE LET Typed(r) ==
                 IF r.st # "Ok" THEN r ELSE FnArgs(args, idx + 1, r.stream)
             Named(r) ==
                 IF r.st # "Ok"
                 THEN r
                 ELSE Typed(SB_push_parsed(SB_punct(r.stream, ":"), args[idx].ty))
         IN  Named(SB_push_parsed(IF idx = 1 THEN b ELSE SB_punct(b, ","),
                                  args[idx].name))

\* a FnBuilder::body that goes on when the return type did not tokenize
FnDefinition_unchecked(f) ==
    LET Pushed(r, base) ==
            IF r.st = "Ok" THEN r ELSE Res("Ok", base, NoError)
        Callback(r) ==
            [toks |-> r.stream, res |-> r.st, err |-> r.err]
        Returns(r) ==
            IF r.st # "Ok" \/ f.return_type = <<>>
            THEN r
            ELSE Pushed(SB_push_parsed(SB_punct(SB_punct(r.stream, "-"), ">"),
                                       f.return_type),
                        SB_punct(SB_punct(r.stream, "-"), ">"))
        Takes(r) ==
            IF r.st # "Ok"
            THEN r
            ELSE Returns(SB_group(r.stream, "Parenthesis",
                                  Callback(FnArgs(f.args, 1, <<>>))))
        Closes(r) ==
            IF r.st # "Ok" THEN r ELSE Takes(Res("Ok", SB_punct(r.stream, ">"), NoError))
        Named(b) ==
            IF f.generics = <<>>
            THEN Takes(Res("Ok", b, NoError))
            ELSE Closes(FnGenerics(f.generics, 1, SB_punct(b, "<")))
        Attributed(r) ==
            IF r.st # "Ok"
            THEN r
            ELSE Named(SB_ident_str(SB_ident_str(r.stream, "fn"), f.name))
    IN  Attributed(FnAttrs(f.attrs, 1, <<>>))

\* FnBuilder::body up to the body callback: Ok with the definition in stream,
\* or the error that ended it early
FnDefinition(f) ==
    LET Callback(r) ==
            [toks |-> r.stream, res |-> r.st, err |-> r.err]
        Returns(r) ==
            IF r.st # "Ok" \/ f.return_type = <<>>
            THEN r
            ELSE SB_push_parsed(SB_punct(SB_punct(r.stream, "-"), ">"),
                                f.return_type)
        Takes(r) ==
            IF r.st # "Ok"
            THEN r
            ELSE Returns(SB_group(r.stream, "Parenthesis",
                                  Callback(FnArgs(f.args, 1, <<>>))))
        Closes(r) ==
            IF r.st # "Ok" THEN r ELSE Takes(Res("Ok", SB_punct(r.stream, ">"), NoError))
        Named(b) ==
            IF f.generics = <<>>
            THEN Takes(Res("Ok", b, NoError))
            ELSE Closes(FnGenerics(f.generics, 1, SB_punct(b, "<")))
        Attributed(r) ==
            IF r.st # "Ok"
            THEN r
            ELSE Named(SB_ident_str(SB_ident_str(r.stream, "fn"), f.name))
    IN  Attributed(FnAttrs(f.attrs, 1, <<>>))

\* builder.punct('#').punct('!').group(delim, ..) of an attribute loop
HashBang(s, delim, text) ==
    SB_group(SB_punct(SB_punct(s, "#"), "!"), delim, PushParsedCallback(text))

\* the fields of a GenConst when with_value is called
GenConst(attrs, vis, name, ty) ==
    [attrs |-> attrs, vis |-> vis, name |-> name, ty |-> ty]

RECURSIVE ConstAttrs(_, _, _)
\* the attribute loop of GenConst::with_value
ConstAttrs(attrs, idx, b) ==
    IF idx > Len(attrs)
    THEN Res("Ok", b, NoError)
    ELSE LET Grouped(r) ==
                 IF r.st # "Ok" THEN r ELSE ConstAttrs(attrs, idx + 1, r.stream)
         IN  Grouped(HashBang(b, "Bracket", attrs[idx]))

\* GenConst::with_value up to the '=' sign
ConstDefinition(g) ==
    LET Typed(r) ==
            IF r.st # "Ok" THEN r ELSE Res("Ok", SB_punct(r.stream, "="), NoError)
        Named(r) ==
            IF r.st # "Ok"
            THEN r
            ELSE Typed(SB_push_parsed(SB_punct(r.stream, ":"), g.ty))
        Attributed(r) ==
            IF r.st # "Ok"
            THEN r
            ELSE Named(SB_push_parsed(
                           SB_ident_str(IF g.vis = "Pub"
                                        THEN SB_ident_str(r.stream, "pub")
                                        ELSE r.stream, "const"),
                           g.name))
    IN  Attributed(ConstAttrs(g.attrs, 1, <<>>))

\* the names a derive function gives to modules, structs and enums
ScopeNames == {"a", "b"}

\* the texts it gives as the name of an impl block or of a trait
NameTexts == {<<"a">>, <<"(">>}

\* the functions it builds: plain; with a return type that does not
\* tokenize; with an attribute, a bounded generic, two arguments and a
\* return type; and one for each other step that can fail
FnBuilders ==
    {FnBuilder(<<>>, <<>>, <<>>, <<>>),
     FnBuilder(<<>>, <<>>, <<>>, <<")">>),
     FnBuilder(<<<<"a">>>>,
               <<[name |-> "T", deps |-> <<<<"a">>, <<"a">>>>]>>,
               <<[name |-> <<"a">>, ty |-> <<"a">>],
                 [name |-> <<"a">>, ty |-> <<"(", ")">>]>>,
               <<"a">>),
     FnBuilder(<<<<"a">>, <<"(">>>>, <<>>, <<>>, <<")">>),
     FnBuilder(<<>>, <<[name |-> "T", deps |-> <<<<"a">>, <<"(">>>>]>>, <<>>, <<>>),
     FnBuilder(<<>>, <<>>, <<[name |-> <<")">>, ty |-> <<"a">>]>>, <<"a">>),
     FnBuilder(<<>>, <<>>,
               <<[name |-> <<"a">>, ty |-> <<"a">>],
                 [name |-> <<"a">>, ty |-> <<"(">>]>>, <<>>)}

\* the attributes it gives to an impl block
AttrTexts == {<<"a">>, <<"b">>, <<"(">>}

\* the constants it builds: plain, with a type that does not tokenize, public
\* with two attributes, with an attribute that does not tokenize
GenConsts ==
    {GenConst(<<>>, "Default", <<"a">>, <<"a">>),
     GenConst(<<>>, "Default", <<"a">>, <<"(">>),
     GenConst(<<<<"a">>, <<"b">>>>, "Pub", <<"a">>, <<"a">>),
     GenConst(<<<<"(">>>>, "Default", <<"a">>, <<"a">>)}

\* FnBuilder::body up to the body callback, for each of them
FnDefinitions ==
    [f \in FnBuilders |-> FnDefinition(f)]

\* GenConst::with_value up to the '=' sign, for each of them
ConstDefinitions ==
    [g \in GenConsts |-> ConstDefinition(g)]

\* the callbacks it passes to body and with_value
GenCallbacks ==
    [toks : {<<Ident("a")>>}, res : {"Ok", "Err", "Panic"}, err : {CustomError}]

\* the generics and where-clause the Generator was created with
GeneratorInputs ==
    {[generics |-> NoGenerics, generic_constraints |-> NoConstraints],
     [generics |-> SomeGenerics(<<[kind |-> "Generic", ident |-> "T", constraints |-> <<Ident("a")>>]>>),
      generic_constraints |-> SomeConstraints(<<Ident("T"), Punct(":"), Ident("a")>>)],
     [generics |-> SomeGenerics(<<[kind |-> "Lifetime", ident |-> "x", constraints |-> <<>>],
                                  [kind |-> "Generic", ident |-> "T", constraints |-> <<>>]>>),
      generic_constraints |-> SomeConstraints(<<Ident("T"), Punct(":"), Ident("a"), Punct(",")>>)]}

\* the names and the types it gives to the fields of a struct
GenFieldNames == {"a", "b"}

GenFieldTypes == {<<"a">>, <<"(">>}

\* the lifetimes it adds to a trait implementation
LifetimeLists == {<<"a", "b">>}

NotClosed ==
    [kind |-> "None", mode |-> "idle", at_open |-> <<>>, before |-> <<>>,
     after |-> <<>>, unit |-> <<>>, panicked |-> FALSE,
     scope |-> Scope("None", <<>>)]

\* history: the scope dropped last, as it was when its drop began
Closed(sc, m, before, after, unit, panicked) ==
    [kind |-> sc.kind, mode |-> m, at_open |-> sc.at_open, before |-> before,
     after |-> after, unit |-> unit, panicked |-> panicked, scope |-> sc]

GenIdle ==
    /\ scopes = <<>>
    /\ mode = "idle"
    /\ returned = NoError
    /\ gen_drop = "none"
    /\ output = <<>>
    /\ ops = 0
    /\ closed = NotClosed

\* Generator::new
GenStart ==
    /\ \E gi \in GeneratorInputs :
          scopes = <<[Scope("Generator", <<"a">>) EXCEPT
                         !.generics = gi.generics,
                         !.generic_constraints = gi.generic_constraints]>>
    /\ mode = "run"
    /\ returned = NoError
    /\ gen_drop = "none"
    /\ output = <<>>
    /\ ops = 0
    /\ closed = NotClosed

\* the innermost open scope
Top ==
    scopes[Len(scopes)]

\* the error the derive function returns when a call returned r and is
\* followed by `?`
ReturnedError(r) ==
    IF r.st = "Err" THEN r.err ELSE NoError

\* the derive function can make another call
Running ==
    /\ mode = "run"
    /\ scopes # <<>>
    /\ ops < MaxOps

\* a child scope is created on the innermost scope
Open(kind, name) ==
    LET n == Len(scopes)
        child == [Scope(kind, name) EXCEPT
                     !.at_open = ParentBuffer(Top),
                     !.idx = Len(Top.kids) + 1]
    IN  /\ scopes' = Append([scopes EXCEPT ![n].kids = Append(@, <<>>)], child)
        /\ ops' = ops + 1
        /\ UNCHANGED <<mode, returned, gen_drop, output, closed>>

\* Generator::generate_mod
OpenMod ==
    /\ Running
    /\ Top.kind = "Generator"
    /\ \E name \in ScopeNames : Open("Mod", <<name>>)
    /\ UNCHANGED <<builderVars, scanVars, parseVars, errVars>>

\* Generator::generate_struct, GenerateMod::generate_struct
OpenStruct ==
    /\ Running
    /\ Top.kind \in {"Generator", "Mod"}
    /\ \E name \in ScopeNames : Open("Struct", <<name>>)
    /\ UNCHANGED <<builderVars, scanVars, parseVars, errVars>>

\* Generator::generate_enum, GenerateMod::generate_enum
OpenEnum ==
    /\ Running
    /\ Top.kind \in {"Generator", "Mod"}
    /\ \E name \in ScopeNames : Open("Enum", <<name>>)
    /\ UNCHANGED <<builderVars, scanVars, parseVars, errVars>>

\* a call on the innermost scope that changes only that scope
OnTop(next_top) ==
    /\ scopes' = [scopes EXCEPT ![Len(scopes)] = next_top]
    /\ ops' = ops + 1
    /\ UNCHANGED <<mode, returned, gen_drop, output, closed>>
    /\ UNCHANGED <<builderVars, scanVars, parseVars, errVars>>

\* GenStruct::make_pub
MakePub ==
    /\ Running
    /\ Top.kind = "Struct"
    /\ OnTop([Top EXCEPT !.visibility = "Pub"])

\* GenStruct::make_tuple
MakeTuple ==
    /\ Running
    /\ Top.kind = "Struct"
    /\ OnTop([Top EXCEPT !.struct_type = "Unnamed"])

\* GenStruct::make_zst
MakeZst ==
    /\ Running
    /\ Top.kind = "Struct"
    /\ OnTop([Top EXCEPT !.struct_type = "Zst"])

\* GenStruct::add_field
AddField ==
    /\ Running
    /\ Top.kind = "Struct"
    /\ \E name \in GenFieldNames, ty \in GenFieldTypes :
          OnTop([Top EXCEPT !.fields = Append(@, StructField(name, "Default", ty))])

\* GenStruct::add_pub_field
AddPubField ==
    /\ Running
    /\ Top.kind = "Struct"
    /\ \E name \in GenFieldNames, ty \in GenFieldTypes :
          OnTop([Top EXCEPT !.fields = Append(@, StructField(name, "Pub", ty))])

\* generate_impl of Generator, GenStruct and GenEnum (Impl::with_parent_name)
\* and of GenerateMod (Impl::new)
OpenImpl ==
    /\ Running
    /\ Top.kind \in ParentKinds
    /\ IF Top.kind = "Mod"
       THEN \E name \in NameTexts : Open("Impl", name)
       ELSE Open("Impl", Top.name)
    /\ UNCHANGED <<builderVars, scanVars, parseVars, errVars>>

\* Generator::impl_for (ImplFor::new)
OpenImplFor ==
    /\ Running
    /\ Top.kind = "Generator"
    /\ \E trait_name \in NameTexts : Open("ImplFor", trait_name)
    /\ UNCHANGED <<builderVars, scanVars, parseVars, errVars>>

\* Generator::impl_for_with_lifetimes (ImplFor::new_with_lifetimes)
OpenImplForWithLifetimes ==
    /\ Running
    /\ Top.kind = "Generator"
    /\ \E lifetimes \in LifetimeLists :
          LET n == Len(scopes)
              child == [Scope("ImplFor", <<"a">>) EXCEPT
                           !.lifetimes = [some |-> TRUE, list |-> lifetimes],
                           !.at_open = ParentBuffer(Top),
                           !.idx = Len(Top.kids) + 1]
          IN  scopes' = Append([scopes EXCEPT ![n].kids = Append(@, <<>>)], child)
    /\ ops' = ops + 1
    /\ UNCHANGED <<mode, returned, gen_drop, output, closed>>
    /\ UNCHANGED <<builderVars, scanVars, parseVars, errVars>>

\* Impl::impl_outer_attr
ImplOuterAttr ==
    /\ Running
    /\ Top.kind = "Impl"
    /\ \E attr \in AttrTexts :
          LET n == Len(scopes)
              b == HashBracket(<<>>, attr)
          IN  /\ scopes' = IF b.st = "Ok"
                           THEN [scopes EXCEPT
                                    ![n].outer_attr = Append(@, b.stream),
                                    ![n].attr_texts = Append(@, [kind |-> "outer",
                                                                 text |-> attr])]
                           ELSE scopes
              /\ mode' = IF b.st = "Ok" THEN "run" ELSE "err"
              /\ returned' = ReturnedError(b)
    /\ ops' = ops + 1
    /\ UNCHANGED <<gen_drop, output, closed>>
    /\ UNCHANGED <<builderVars, scanVars, parseVars, errVars>>

\* Impl::impl_inner_attr
ImplInnerAttr ==
    /\ Running
    /\ Top.kind = "Impl"
    /\ \E attr \in AttrTexts :
          LET n == Len(scopes)
              b == HashBang(<<>>, "Brace", attr)
          IN  /\ scopes' = IF b.st = "Ok"
                           THEN [scopes EXCEPT
                                    ![n].inner_attr = Append(@, b.stream),
                                    ![n].attr_texts = Append(@, [kind |-> "inner",
                                                                 text |-> attr])]
                           ELSE scopes
              /\ mode' = IF b.st = "Ok" THEN "run" ELSE "err"
              /\ returned' = ReturnedError(b)
    /\ ops' = ops + 1
    /\ UNCHANGED <<gen_drop, output, closed>>
    /\ UNCHANGED <<builderVars, scanVars, parseVars, errVars>>

\* how a call that returned r leaves the derive function: it goes on, returns
\* the error with `?`, or unwinds
After(r) ==
    CASE r.st = "Ok" -> "run"
      [] r.st = "Err" -> "err"
      [] OTHER -> "panic"

\* FnBuilder::body with the fields f and the callback cb, on an Impl or
\* ImplFor
FnBuilder_body(f, cb) ==
    /\ Running
    /\ Top.kind \in {"Impl", "ImplFor"}
    /\ LET n == Len(scopes)
           def == FnDefinitions[f]
           body == IF def.st = "Ok" THEN RunCallback(cb, <<>>) ELSE def
           item == [def |-> def.stream, body |-> body.stream]
       IN  /\ mode' = After(body)
           /\ returned' = ReturnedError(body)
           /\ scopes' = IF body.st = "Ok"
                        THEN [scopes EXCEPT
                                 ![n].fns = Append(@, item),
                                 ![n].items = Append(@, [kind |-> "fn", toks |-> FnItem(item),
                                                         by |-> f])]
                        ELSE scopes
    /\ ops' = ops + 1
    /\ UNCHANGED <<gen_drop, output, closed>>
    /\ UNCHANGED <<builderVars, scanVars, parseVars, errVars>>

\* generate_fn(name), the with_ calls as f says, then body(cb)
GenerateFn ==
    \E f \in FnBuilders, cb \in GenCallbacks : FnBuilder_body(f, cb)

\* GenConst::with_value with the fields g and the callback cb, on an Impl or
\* ImplFor
GenConst_with_value(g, cb) ==
    /\ Running
    /\ Top.kind \in {"Impl", "ImplFor"}
    /\ LET n == Len(scopes)
           def == ConstDefinitions[g]
           value == IF def.st = "Ok" THEN RunCallback(cb, def.stream) ELSE def
           item == SB_punct(value.stream, ";")
       IN  /\ mode' = After(value)
           /\ returned' = ReturnedError(value)
           /\ scopes' = IF value.st = "Ok"
                        THEN [scopes EXCEPT
                                 ![n].consts = Append(@, item),
                                 ![n].items = Append(@, [kind |-> "const", toks |-> item,
                                                         by |-> g])]
                        ELSE scopes
    /\ ops' = ops + 1
    /\ UNCHANGED <<gen_drop, output, closed>>
    /\ UNCHANGED <<builderVars, scanVars, parseVars, errVars>>

\* generate_const(name, ty), with_attr and make_pub as g says, then
\* with_value(cb)
GenerateConst ==
    \E g \in GenConsts, cb \in GenCallbacks : GenConst_with_value(g, cb)

\* the builder of ImplFor::impl_type: Ok with `type name = value ;`, or the
\* error that ended it early
TypeDefinition(name, value) ==
    LET Valued(r) ==
            IF r.st # "Ok" THEN r ELSE Res("Ok", SB_punct(r.stream, ";"), NoError)
        Named(r) ==
            IF r.st # "Ok"
            THEN r
            ELSE Valued(SB_push_parsed(SB_punct(r.stream, "="), value))
    IN  Named(SB_push_parsed(SB_ident_str(<<>>, "type"), name))

\* ImplFor::impl_type
ImplType ==
    /\ Running
    /\ Top.kind = "ImplFor"
    /\ \E name \in NameTexts, value \in NameTexts :
          LET n == Len(scopes)
              def == TypeDefinition(name, value)
          IN  /\ scopes' = IF def.st = "Ok"
                           THEN [scopes EXCEPT
                                    ![n].impl_types = Append(@, def.stream),
                                    ![n].items = Append(@, [kind |-> "type",
                                                            toks |-> def.stream,
                                                            by |-> <<>>])]
                           ELSE scopes
              /\ mode' = After(def)
              /\ returned' = ReturnedError(def)
    /\ ops' = ops + 1
    /\ UNCHANGED <<gen_drop, output, closed>>
    /\ UNCHANGED <<builderVars, scanVars, parseVars, errVars>>

\* one entry of a scope's calls history
ModifyCall(received, r, before, after) ==
    [received |-> received, st |-> r.st, left |-> r.stream, err |-> r.err,
     before |-> before, after |-> after]

\* the constraints of the parent, cloned, or the default
ParentConstraintsOrDefault(p) ==
    IF ParentConstraints(p).some THEN ParentConstraints(p).constraints ELSE <<>>

\* Impl::modify_generic_constraints: the callback returns nothing, so that
\* an error of the call it makes is dropped, and works on the stored custom
\* constraints, which are created on the first call
Impl_modify_generic_constraints ==
    /\ Running
    /\ Top.kind = "Impl"
    /\ \E cb \in {c \in ConstraintCallbacks : c.res = "Ok"} :
          LET n == Len(scopes)
              p == scopes[n - 1]
              Stored(before, received, r) ==
                  [Top EXCEPT
                      !.custom_generic_constraints = SomeConstraints(r.stream),
                      !.calls = Append(@, ModifyCall(received, [r EXCEPT !.st = "Ok"],
                                                     before, SomeConstraints(r.stream)))]
              Called(before, received) ==
                  Stored(before, received,
                         RunConstraintCallback(cb, ParentGenerics(p).list, received))
          IN  scopes' = IF ParentGenerics(p).some
                        THEN [scopes EXCEPT ![n] =
                                 Called(Top.custom_generic_constraints,
                                        IF Top.custom_generic_constraints.some
                                        THEN Top.custom_generic_constraints.constraints
                                        ELSE ParentConstraintsOrDefault(p))]
                        ELSE scopes
    /\ ops' = ops + 1
    /\ UNCHANGED <<mode, returned, gen_drop, output, closed>>
    /\ UNCHANGED <<builderVars, scanVars, parseVars, errVars>>

\* ImplFor::modify_generic_constraints: the callback works on a clone of the
\* parent's constraints, which is stored when the callback returns Ok
ImplFor_modify_generic_constraints ==
    /\ Running
    /\ Top.kind = "ImplFor"
    /\ \E cb \in ConstraintCallbacks :
          LET n == Len(scopes)
              p == scopes[n - 1]
              Stored(before, received, r) ==
                  [Top EXCEPT
                      !.custom_generic_constraints =
                          IF r.st = "Ok" THEN SomeConstraints(r.stream) ELSE before,
                      !.calls = Append(@, ModifyCall(received, r, before,
                                              IF r.st = "Ok"
                                              THEN SomeConstraints(r.stream)
                                              ELSE before))]
              Called(before, received) ==
                  Stored(before, received,
                         RunConstraintCallback(cb, ParentGenerics(p).list, received))
              Last(sc) == sc.calls[Len(sc.calls)]
          IN  IF ParentGenerics(p).some
              THEN /\ scopes' = [scopes EXCEPT ![n] =
                                    Called(Top.custom_generic_constraints,
                                           ParentConstraintsOrDefault(p))]
                   /\ mode' = IF Last(scopes'[n]).st = "Ok" THEN "run" ELSE "err"
                   /\ returned' = ReturnedError(Last(scopes'[n]))
              ELSE /\ scopes' = scopes
                   /\ mode' = mode
                   /\ returned' = returned
    /\ ops' = ops + 1
    /\ UNCHANGED <<gen_drop, output, closed>>
    /\ UNCHANGED <<builderVars, scanVars, parseVars, errVars>>

\* The innermost scope goes out of scope: at the end of a statement or block
\* while the derive function runs, on its early return, or while it unwinds.
DropScope ==
    /\ mode \in {"run", "err", "panic"}
    /\ Len(scopes) >= 2
    /\ LET n == Len(scopes)
           sc == scopes[n]
           p == scopes[n - 1]
           rest == SubSeq(scopes, 1, n - 1)
           r == DropTokens(sc, p)
       IN  IF ~Flushes(sc, mode = "panic")
           THEN /\ scopes' = rest
                /\ mode' = mode
                /\ closed' = Closed(sc, mode, ParentBuffer(p), ParentBuffer(p), <<>>, FALSE)
           ELSE IF r.st # "Ok"
           THEN /\ scopes' = rest
                /\ mode' = IF mode = "panic" THEN "aborted" ELSE "panic"
                /\ closed' = Closed(sc, mode, ParentBuffer(p), ParentBuffer(p), <<>>, TRUE)
           ELSE LET q == ParentAppend(p, r.stream)
                IN  /\ scopes' = [rest EXCEPT
                                     ![n - 1] = [q EXCEPT !.kids[sc.idx] = r.stream]]
                    /\ mode' = mode
                    /\ closed' = Closed(sc, mode, ParentBuffer(p), ParentBuffer(q), r.stream, FALSE)
    /\ UNCHANGED <<returned, gen_drop, output, ops>>
    /\ UNCHANGED <<builderVars, scanVars, parseVars, errVars>>

\* Drop for Generator: a warning on stderr when the stream is non-empty and
\* the thread is not panicking, nothing otherwise
GeneratorDrop(g, panicking) ==
    IF g.stream # <<>> /\ ~panicking THEN "warned" ELSE "silent"

\* Generator::finish: takes the stream, and the emptied Generator is dropped
Finish ==
    /\ mode = "run"
    /\ Len(scopes) = 1
    /\ LET g == [scopes[1] EXCEPT !.stream = <<>>]
       IN  /\ output' = scopes[1].stream
           /\ gen_drop' = GeneratorDrop(g, FALSE)
           /\ closed' = Closed(g, mode, g.stream, g.stream, <<>>, FALSE)
    /\ scopes' = <<>>
    /\ mode' = "finished"
    /\ UNCHANGED <<returned, ops>>
    /\ UNCHANGED <<builderVars, scanVars, parseVars, errVars>>

\* The Generator goes out of scope without finish: the derive function
\* returned without calling it, returned an error early, or unwinds.
DropGenerator ==
    /\ mode \in {"run", "err", "panic"}
    /\ Len(scopes) = 1
    /\ LET g == scopes[1]
       IN  /\ gen_drop' = GeneratorDrop(g, mode = "panic")
           /\ closed' = Closed(g, mode, g.stream, g.stream, <<>>, FALSE)
    /\ scopes' = <<>>
    /\ mode' = "dropped"
    /\ UNCHANGED <<returned, output, ops>>
    /\ UNCHANGED <<builderVars, scanVars, parseVars, errVars>>


----------------------------------------------------------------------------
(* parse/*.rs: the declaration parser, as functions of the unconsumed rest *)
(* of a token stream                                                       *)

Literal(c, digits) ==
    Tok("Literal", c, digits)

\* An Error value.  A span is given as the number of tokens of the stream
\* that were left when the token it belongs to came next (0: the call site);
\* lvl counts the groups between that stream and the stream being parsed.
ParseError(kind, left) ==
    [kind |-> kind, left |-> left, lvl |-> 0]

NoParseError ==
    ParseError("None", 0)

\* the error of a parser that ran on the stream inside a group
Inner(err) ==
    [err EXCEPT !.lvl = @ + 1]

\* What a parsing function leaves behind: its outcome (Ok, Err, Panic, or
\* Diverge for a loop that would not end), the unconsumed rest, the value it
\* returns and its error.
PR(st, rest, val, err) ==
    [st |-> st, rest |-> rest, val |-> val, err |-> err]

\* Error::wrong_token
wrong_token(rest) ==
    PR("Err", rest, <<>>, ParseError("InvalidRustSyntax", Len(rest)))

IsPunct(rest, ch) ==
    rest # <<>> /\ Head(rest).k = "Punct" /\ Head(rest).c = ch

IsIdent(rest) ==
    rest # <<>> /\ Head(rest).k = "Ident"

IsGroup(rest) ==
    rest # <<>> /\ Head(rest).k = "Group"

\* consume_punct_if
consume_punct_if(rest, ch) ==
    IF IsPunct(rest, ch) THEN Tail(rest) ELSE rest

\* consume_ident: an identifier, or a group holding exactly one identifier;
\* span is where the identifier returned stands
consume_ident(rest) ==
    IF IsIdent(rest)
    THEN [some |-> TRUE, ident |-> Head(rest).c, rest |-> Tail(rest),
          span |-> ParseError("Span", Len(rest))]
    ELSE IF IsGroup(rest) /\ Len(Head(rest).s) = 1 /\ Head(rest).s[1].k = "Ident"
    THEN [some |-> TRUE, ident |-> Head(rest).s[1].c, rest |-> Tail(rest),
          span |-> Inner(ParseError("Span", 1))]
    ELSE [some |-> FALSE, ident |-> "", rest |-> rest, span |-> ParseError("Span", 0)]

RECURSIVE ReadTokens(_, _, _, _)
\* read_tokens_until_punct, from the state of its loop
ReadTokens(rest, expected, tokens, stack) ==
    LET Arm(t, d) ==
            CASE d.act = "copy" ->
                   ReadTokens(Tail(rest), expected, Append(tokens, t), d.stack)
              [] d.act = "break" -> PR("Ok", rest, tokens, NoParseError)
              [] d.act = "err" ->
                   PR("Err", rest, <<>>, ParseError("InvalidRustSyntax", Len(rest)))
              [] OTHER -> PR("Panic", rest, <<>>, NoParseError)
        Match(t) ==
            Arm(t, IF t.k = "Punct"
                   THEN PunctArm(tokens, stack, t, expected)
                   ELSE IF t.k = "Group" /\ stack = <<>>
                   THEN GroupArm(t, expected)
                   ELSE Step("copy", stack))
    IN  IF rest = <<>>
        THEN PR("Ok", rest, tokens, NoParseError)
        ELSE Match(Head(rest))

\* read_tokens_until_punct
read_tokens_until_punct(rest, expected) ==
    ReadTokens(rest, expected, <<>>, <<>>)

\* an Attribute: where it was found and its bracket group
Attribute(location, tokens) ==
    [location |-> location, tokens |-> tokens]

\* a pass that puts the attribute in front of those taken before
AttributeIter_front(location, rest, acc) ==
    IF IsGroup(rest) /\ Head(rest).c = "Bracket"
    THEN PR("continue", Tail(rest), <<Attribute(location, Head(rest))>> \o acc,
            NoParseError)
    ELSE IF IsGroup(rest)
    THEN PR("Err", rest, <<>>, ParseError("InvalidRustSyntax", Len(rest)))
    ELSE IF IsPunct(rest, "#")
    THEN PR("continue", rest, acc, NoParseError)
    ELSE wrong_token(rest)

\* one pass of the loop of Attribute::try_take, the '#' consumed: continue
\* with an attribute more or none, or return the error
AttributeIter(location, rest, acc) ==
    IF IsGroup(rest) /\ Head(rest).c = "Bracket"
    THEN PR("continue", Tail(rest), Append(acc, Attribute(location, Head(rest))),
            NoParseError)
    ELSE IF IsGroup(rest)
    THEN PR("Err", rest, <<>>, ParseError("InvalidRustSyntax", Len(rest)))
    ELSE IF IsPunct(rest, "#")
    THEN PR("continue", rest, acc, NoParseError)
    ELSE wrong_token(rest)

RECURSIVE AttributeLoop(_, _, _)
AttributeLoop(location, rest, acc) ==
    LET Pass(it) ==
            IF it.st # "continue"
            THEN it
            ELSE IF Len(it.rest) >= Len(rest)
            THEN PR("Diverge", rest, <<>>, NoParseError)
            ELSE AttributeLoop(location, it.rest, it.val)
    IN  IF ~IsPunct(rest, "#")
        THEN PR("Ok", rest, acc, NoParseError)
        ELSE Pass(AttributeIter(location, Tail(rest), acc))

\* Attribute::try_take
Attribute_try_take(location, rest) ==
    AttributeLoop(location, rest, <<>>)

\* Visibility::try_take
Visibility_try_take(rest) ==
    IF IsIdent(rest) /\ Head(rest).c = "pub"
    THEN LET after == Tail(rest)
             restricted ==
                /\ IsGroup(after)
                /\ Head(after).c = "Parenthesis"
                /\ Head(after).s # <<>>
                /\ Head(after).s[1].k = "Ident"
                /\ Head(after).s[1].c \in {"crate", "self", "super", "in"}
         IN  PR("Ok", IF restricted THEN Tail(after) ELSE after, "Pub", NoParseError)
    ELSE IF IsGroup(rest) /\ Head(rest).s = <<Ident("pub")>>
    THEN LET after == Tail(rest)
         IN  PR("Ok", IF IsGroup(after) THEN Tail(after) ELSE after, "Pub", NoParseError)
    ELSE PR("Ok", rest, "Default", NoParseError)

\* a DataType::take that reports every keyword it does not know as a
\* wrong token
DataType_take_syntax(rest) ==
    LET Named(kw, name) ==
            PR("Ok", name.rest,
               [datatype |-> IF kw.ident = "struct" THEN "Struct" ELSE "Enum",
                name |-> name.ident],
               NoParseError)
        Keyword(kw, name) ==
            IF kw.some /\ kw.ident \in {"struct", "enum"} /\ name.some
            THEN Named(kw, name)
            ELSE wrong_token(IF kw.some /\ kw.ident \in {"struct", "enum"}
                             THEN name.rest
                             ELSE rest)
        Taken(kw) ==
            Keyword(kw, consume_ident(kw.rest))
    IN  Taken(consume_ident(rest))

\* a DataType::take that reports a keyword without a name as an unknown
\* data type
DataType_take_unnamed(rest) ==
    LET Named(kw, name) ==
            IF kw.some /\ name.some
            THEN PR("Ok", name.rest,
                    [datatype |-> IF kw.ident = "struct" THEN "Struct" ELSE "Enum",
                     name |-> name.ident],
                    NoParseError)
            ELSE IF kw.some
            THEN PR("Err", kw.rest, <<>>, [kw.span EXCEPT !.kind = "UnknownDataType"])
            ELSE wrong_token(name.rest)
        Keyword(kw) ==
            IF kw.some /\ kw.ident \notin {"struct", "enum"}
            THEN PR("Err", kw.rest, <<>>, [kw.span EXCEPT !.kind = "UnknownDataType"])
            ELSE Named(kw, consume_ident(kw.rest))
    IN  Keyword(consume_ident(rest))

\* DataType::take
DataType_take(rest) ==
    LET Named(kw, name) ==
            IF kw.some /\ name.some
            THEN PR("Ok", name.rest,
                    [datatype |-> IF kw.ident = "struct" THEN "Struct" ELSE "Enum",
                     name |-> name.ident],
                    NoParseError)
            ELSE wrong_token(name.rest)
        Keyword(kw) ==
            IF kw.some /\ kw.ident \notin {"struct", "enum"}
            THEN PR("Err", kw.rest, <<>>, [kw.span EXCEPT !.kind = "UnknownDataType"])
            ELSE Named(kw, consume_ident(kw.rest))
    IN  Keyword(consume_ident(rest))

\* a generic parameter as Generics holds it
GenericParam(kind, ident, constraints) ==
    [kind |-> kind, ident |-> ident, constraints |-> constraints]

\* the optional `: constraints` behind the name of a generic parameter
TakeConstraints(rest, expected, kind, ident) ==
    LET Read(r) ==
            IF r.st = "Ok"
            THEN PR("Ok", r.rest, GenericParam(kind, ident, r.val), NoParseError)
            ELSE r
    IN  IF IsPunct(rest, ":")
        THEN Read(read_tokens_until_punct(Tail(rest), expected))
        ELSE PR("Ok", rest, GenericParam(kind, ident, <<>>), NoParseError)

\* Lifetime::take, entered with the lifetime sigil next
Lifetime_take(rest) ==
    LET after == Tail(rest)
    IN  IF IsIdent(after)
        THEN TakeConstraints(Tail(after), <<",", ">">>, "Lifetime", Head(after).c)
        ELSE IF after # <<>>
        THEN PR("Err", after, <<>>, ParseError("ExpectedIdent", Len(after)))
        ELSE PR("Err", after, <<>>, ParseError("ExpectedIdent", Len(rest)))

\* SimpleGeneric::take, entered with an identifier next
SimpleGeneric_take(rest) ==
    TakeConstraints(Tail(rest), <<">", ",">>, "Generic", Head(rest).c)

\* ConstGeneric::take, entered with the identifier `const` next: the token
\* behind it is assumed an identifier
ConstGeneric_take(rest) ==
    LET after == Tail(rest)
    IN  IF IsIdent(after)
        THEN TakeConstraints(Tail(after), <<">", ",">>, "Const", Head(after).c)
        ELSE PR("Panic", IF after = <<>> THEN after ELSE Tail(after), <<>>, NoParseError)

\* a push that drops a parameter whose name the list already holds
PushGeneric_dedup(r, acc) ==
    IF r.st = "Ok"
    THEN PR("continue", consume_punct_if(r.rest, ","),
            IF \E i \in 1..Len(acc) : acc[i].ident = r.val.ident
            THEN acc
            ELSE Append(acc, r.val),
            NoParseError)
    ELSE r

\* one parameter and the comma behind it, pushed onto the list
PushGeneric(r, acc) ==
    IF r.st = "Ok"
    THEN PR("continue", consume_punct_if(r.rest, ","), Append(acc, r.val), NoParseError)
    ELSE r

\* a pass of the loop that takes anything that is not '>' as a parameter name
GenericsIter_any(rest, acc, open_left) ==
    IF IsPunct(rest, ">")
    THEN PR("Ok", Tail(rest), acc, NoParseError)
    ELSE IF rest = <<>>
    THEN PR("Err", rest, <<>>, ParseError("InvalidRustSyntax", open_left))
    ELSE PushGeneric(PR("Ok", Tail(rest), GenericParam("Generic", Head(rest).c, <<>>),
                        NoParseError), acc)

\* one pass of the loop of Generics::try_take; open_left is the span of '<'
GenericsIter(rest, acc, open_left) ==
    IF IsPunct(rest, "'")
    THEN PushGeneric(Lifetime_take(rest), acc)
    ELSE IF IsPunct(rest, ">")
    THEN PR("Ok", Tail(rest), acc, NoParseError)
    ELSE IF IsIdent(rest) /\ Head(rest).c = "const"
    THEN PushGeneric(ConstGeneric_take(rest), acc)
    ELSE IF IsIdent(rest)
    THEN PushGeneric(SimpleGeneric_take(rest), acc)
    ELSE PR("Err", rest, <<>>,
            ParseError("InvalidRustSyntax", IF rest # <<>> THEN Len(rest) ELSE open_left))

RECURSIVE GenericsLoop(_, _, _)
GenericsLoop(rest, acc, open_left) ==
    LET Pass(it) ==
            IF it.st # "continue"
            THEN it
            ELSE IF Len(it.rest) >= Len(rest)
            THEN PR("Diverge", rest, <<>>, NoParseError)
            ELSE GenericsLoop(it.rest, it.val, open_left)
    IN  Pass(GenericsIter(rest, acc, open_left))

\* Generics::try_take: Option<Generics> as NoGenerics / SomeGenerics
Generics_try_take(rest) ==
    LET List(r) ==
            IF r.st = "Ok" THEN [r EXCEPT !.val = SomeGenerics(@)] ELSE r
    IN  IF IsPunct(rest, "<")
        THEN List(GenericsLoop(Tail(rest), <<>>, Len(rest)))
        ELSE PR("Ok", rest, NoGenerics, NoParseError)

\* a GenericConstraints::try_take that steps over an identifier other than
\* `where`
GenericConstraints_try_take_skip(rest) ==
    LET Read(r) ==
            IF r.st = "Ok" THEN [r EXCEPT !.val = SomeConstraints(@)] ELSE r
    IN  IF IsIdent(rest) /\ Head(rest).c = "where"
        THEN Read(read_tokens_until_punct(Tail(rest), <<"{", "(">>))
        ELSE PR("Ok", IF IsIdent(rest) THEN Tail(rest) ELSE rest, NoConstraints,
                NoParseError)

\* GenericConstraints::try_take
GenericConstraints_try_take(rest) ==
    LET Read(r) ==
            IF r.st = "Ok" THEN [r EXCEPT !.val = SomeConstraints(@)] ELSE r
    IN  IF IsIdent(rest) /\ Head(rest).c = "where"
        THEN Read(read_tokens_until_punct(Tail(rest), <<"{", "(">>))
        ELSE PR("Ok", rest, NoConstraints, NoParseError)

\* the largest value of the signed integer type that stands for i64
MaxI64 ==
    2 ^ (IntBits - 1) - 1

RECURSIVE FromDigits(_)
\* the number a sequence of decimal digits writes
FromDigits(digits) ==
    IF digits = <<>>
    THEN 0
    ELSE 10 * FromDigits(SubSeq(digits, 1, Len(digits) - 1)) + digits[Len(digits)]

RECURSIVE ToDigits(_)
\* the decimal digits of a natural number
ToDigits(n) ==
    IF n < 10 THEN <<n>> ELSE Append(ToDigits(n \div 10), n % 10)

\* lit.to_string().parse::<i64>() on a literal the lexer made: the text is
\* the digits followed by the suffix, and parses iff there is no suffix and
\* the number fits the type
ParseI64(lit) ==
    IF lit.c = "" /\ FromDigits(lit.s) <= MaxI64
    THEN [ok |-> TRUE, val |-> FromDigits(lit.s)]
    ELSE [ok |-> FALSE, val |-> 0]

\* Literal::i64_unsuffixed
i64_unsuffixed(n) ==
    IF n < 0 THEN Literal("-", ToDigits(-n)) ELSE Literal("", ToDigits(n))

\* the value a literal denotes
LiteralValue(lit) ==
    IF lit.c = "-" THEN -FromDigits(lit.s) ELSE FromDigits(lit.s)

\* an UnnamedField, with its name when it was parsed with one
Field(name, vis, type, attributes) ==
    [name |-> name, vis |-> vis, type |-> type, attributes |-> attributes]

\* Option<Fields>
Fields(kind, list) ==
    [kind |-> kind, list |-> list]

\* a push that puts the field in front of those parsed before
PushField_front(t, acc, name, vis, attributes) ==
    IF t.st = "Ok"
    THEN PR("continue", consume_punct_if(t.rest, ","),
            <<Field(name, vis, t.val, attributes)>> \o acc, NoParseError)
    ELSE t

\* the type of a field and the comma behind it, pushed as a field
PushField(t, acc, name, vis, attributes) ==
    IF t.st = "Ok"
    THEN PR("continue", consume_punct_if(t.rest, ","),
            Append(acc, Field(name, vis, t.val, attributes)), NoParseError)
    ELSE t

\* one pass of the loop of UnnamedField::parse_with_name
NamedFieldIter(rest, acc) ==
    LET Name(a, v, named) ==
            IF v.rest = <<>>
            THEN PR("Ok", v.rest, acc, NoParseError)
            ELSE IF ~IsIdent(v.rest)
            THEN PR("Err", v.rest, <<>>, ParseError("InvalidRustSyntax", Len(v.rest)))
            ELSE IF ~IsPunct(named, ":")
            THEN wrong_token(named)
            ELSE PushField(read_tokens_until_punct(Tail(named), <<",">>),
                           acc, Head(v.rest).c, v.val, a.val)
        Vis(a, v) ==
            Name(a, v, IF v.rest = <<>> THEN <<>> ELSE Tail(v.rest))
        Attrs(a) ==
            IF a.st # "Ok" THEN a ELSE Vis(a, Visibility_try_take(a.rest))
    IN  Attrs(Attribute_try_take("Field", rest))

RECURSIVE NamedFieldLoop(_, _)
NamedFieldLoop(rest, acc) ==
    LET Pass(it) ==
            IF it.st # "continue"
            THEN it
            ELSE IF Len(it.rest) >= Len(rest)
            THEN PR("Diverge", rest, <<>>, NoParseError)
            ELSE NamedFieldLoop(it.rest, it.val)
    IN  Pass(NamedFieldIter(rest, acc))

\* UnnamedField::parse_with_name
parse_with_name(rest) ==
    NamedFieldLoop(rest, <<>>)

\* a pass of the loop of parse that leaves the comma in place
TupleFieldIter_no_comma(rest, acc) ==
    LET Type(t) ==
            IF t.st = "Ok"
            THEN PR("continue", t.rest, Append(acc, Field("", "Default", t.val, <<>>)),
                    NoParseError)
            ELSE t
    IN  Type(read_tokens_until_punct(rest, <<",">>))

\* one pass of the loop of UnnamedField::parse
TupleFieldIter(rest, acc) ==
    LET Vis(a, v) ==
            PushField(read_tokens_until_punct(v.rest, <<",">>), acc, "", v.val, a.val)
        Attrs(a) ==
            IF a.st # "Ok" THEN a ELSE Vis(a, Visibility_try_take(a.rest))
    IN  Attrs(Attribute_try_take("Field", rest))

RECURSIVE TupleFieldLoop(_, _)
TupleFieldLoop(rest, acc) ==
    LET Pass(it) ==
            IF it.st # "continue"
            THEN it
            ELSE IF Len(it.rest) >= Len(rest)
            THEN PR("Diverge", rest, <<>>, NoParseError)
            ELSE TupleFieldLoop(it.rest, it.val)
    IN  IF rest = <<>>
        THEN PR("Ok", rest, acc, NoParseError)
        ELSE Pass(TupleFieldIter(rest, acc))

\* UnnamedField::parse
parse(rest) ==
    TupleFieldLoop(rest, <<>>)

\* a reading of the group that also takes a ';' behind it
GroupFields_semicolon(rest) ==
    LET Parsed(group, r) ==
            IF r.st = "Ok"
            THEN PR("Ok", consume_punct_if(Tail(rest), ";"),
                    Fields(IF group.c = "Brace" THEN "Struct" ELSE "Tuple", r.val),
                    NoParseError)
            ELSE PR(r.st, Tail(rest), <<>>, Inner(r.err))
        Delimited(group) ==
            CASE group.c = "Brace" -> Parsed(group, parse_with_name(group.s))
              [] group.c = "Parenthesis" -> Parsed(group, parse(group.s))
              [] OTHER -> PR("Err", rest, <<>>, ParseError("InvalidRustSyntax", Len(rest)))
    IN  Delimited(Head(rest))

\* the fields of a brace or parenthesis group; rest begins with the group
GroupFields(rest) ==
    LET Parsed(group, r) ==
            IF r.st = "Ok"
            THEN PR("Ok", Tail(rest),
                    Fields(IF group.c = "Brace" THEN "Struct" ELSE "Tuple", r.val),
                    NoParseError)
            ELSE PR(r.st, Tail(rest), <<>>, Inner(r.err))
        Delimited(group) ==
            CASE group.c = "Brace" -> Parsed(group, parse_with_name(group.s))
              [] group.c = "Parenthesis" -> Parsed(group, parse(group.s))
              [] OTHER -> PR("Err", rest, <<>>, ParseError("InvalidRustSyntax", Len(rest)))
    IN  Delimited(Head(rest))

\* a StructBody::take that consumes the ';' of a record without fields
StructBody_take_semicolon(rest) ==
    IF IsGroup(rest)
    THEN GroupFields(rest)
    ELSE IF IsPunct(rest, ";")
    THEN PR("Ok", Tail(rest), Fields("None", <<>>), NoParseError)
    ELSE wrong_token(rest)

\* StructBody::take
StructBody_take(rest) ==
    IF IsGroup(rest)
    THEN GroupFields(rest)
    ELSE IF IsPunct(rest, ";")
    THEN PR("Ok", rest, Fields("None", <<>>), NoParseError)
    ELSE wrong_token(rest)

\* an EnumVariant; value is <<>> for None and <<literal>> for Some(literal)
Variant(name, fields, value, attributes) ==
    [name |-> name, fields |-> fields, value |-> value, attributes |-> attributes]

\* the part of EnumBody::take behind a variant's name and fields: the
\* optional `= literal` or `= - literal`
Discriminant(rest) ==
    LET Negative(digits, val) ==
            IF val.ok
            THEN PR("Ok", Tail(digits), <<i64_unsuffixed(-val.val)>>, NoParseError)
            ELSE PR("Err", Tail(digits), <<>>, ParseError("Custom", Len(digits)))
        Minus(digits) ==
            IF digits = <<>>
            THEN PR("Err", digits, <<>>, ParseError("InvalidRustSyntax", 0))
            ELSE IF Head(digits).k # "Literal"
            THEN PR("Err", Tail(digits), <<>>, ParseError("InvalidRustSyntax", Len(digits)))
            ELSE Negative(digits, ParseI64(Head(digits)))
        Value(after) ==
            IF after = <<>>
            THEN PR("Err", after, <<>>, ParseError("InvalidRustSyntax", 0))
            ELSE IF Head(after).k = "Literal"
            THEN PR("Ok", Tail(after), <<Head(after)>>, NoParseError)
            ELSE IF ~IsPunct(after, "-")
            THEN PR("Err", Tail(after), <<>>, ParseError("InvalidRustSyntax", Len(after)))
            ELSE Minus(Tail(after))
    IN  IF IsPunct(rest, "=")
        THEN Value(Tail(rest))
        ELSE IF IsPunct(rest, ",") \/ rest = <<>>
        THEN PR("Ok", rest, <<>>, NoParseError)
        ELSE wrong_token(rest)

\* a pass of the variant loop that gives every variant with a group the
\* named shape
VariantIter_struct_only(rest, acc) ==
    LET Name(id, grouped) ==
            IF ~id.some
            THEN wrong_token(rest)
            ELSE PR("continue",
                    consume_punct_if(IF grouped THEN Tail(id.rest) ELSE id.rest, ","),
                    Append(acc, Variant(id.ident,
                                        Fields(IF grouped THEN "Struct" ELSE "None", <<>>),
                                        <<>>, <<>>)),
                    NoParseError)
        Taken(id) ==
            Name(id, IsGroup(id.rest))
    IN  Taken(consume_ident(rest))

\* one pass of the loop of EnumBody::take
VariantIter(rest, acc) ==
    LET Value(a, id, f, d) ==
            IF d.st # "Ok"
            THEN d
            ELSE PR("continue", consume_punct_if(d.rest, ","),
                    Append(acc, Variant(id.ident, f.val, d.val, a.val)), NoParseError)
        Group_(a, id, f) ==
            IF f.st # "Ok" THEN f ELSE Value(a, id, f, Discriminant(f.rest))
        Name(a, id) ==
            IF ~id.some
            THEN wrong_token(a.rest)
            ELSE Group_(a, id, IF IsGroup(id.rest)
                               THEN GroupFields(id.rest)
                               ELSE PR("Ok", id.rest, Fields("None", <<>>), NoParseError))
        Attrs(a) ==
            IF a.st # "Ok" THEN a ELSE Name(a, consume_ident(a.rest))
    IN  Attrs(Attribute_try_take("Variant", rest))

RECURSIVE VariantLoop(_, _)
VariantLoop(rest, acc) ==
    LET Pass(it) ==
            IF it.st # "continue"
            THEN it
            ELSE IF Len(it.rest) >= Len(rest)
            THEN PR("Diverge", rest, <<>>, NoParseError)
            ELSE VariantLoop(it.rest, it.val)
    IN  IF rest = <<>>
        THEN PR("Ok", rest, acc, NoParseError)
        ELSE Pass(VariantIter(rest, acc))

\* EnumBody::take
EnumBody_take(rest) ==
    LET Variants(r) ==
            IF r.st = "Ok"
            THEN PR("Ok", Tail(rest), r.val, NoParseError)
            ELSE PR(r.st, Tail(rest), <<>>, Inner(r.err))
    IN  IF IsGroup(rest)
        THEN Variants(VariantLoop(Head(rest).s, <<>>))
        ELSE IF IsPunct(rest, ";")
        THEN PR("Ok", rest, <<>>, NoParseError)
        ELSE wrong_token(rest)

----------------------------------------------------------------------------
(* The declarations given to Parse::new: what was written, and the tokens *)
(* the compiler hands over for it                                          *)

RECURSIVE Separated(_, _)
\* the items with a comma behind each but the last
Separated(items, last_comma) ==
    IF items = <<>>
    THEN <<>>
    ELSE IF Len(items) = 1
    THEN Head(items) \o (IF last_comma THEN <<Punct(",")>> ELSE <<>>)
    ELSE Head(items) \o <<Punct(",")>> \o Separated(Tail(items), last_comma)

\* generic parameters as they are written
WrittenParams ==
    {<<Ident("T")>>,
     <<Ident("T"), Punct(":"), Ident("a")>>,
     <<Punct("'"), Ident("a")>>,
     <<Ident("const"), Ident("N"), Punct(":"), Ident("u")>>,
     <<Ident("A"), Punct(":"), Ident("F"), Group("Parenthesis", <<Ident("u")>>),
       Punct("-"), Punct(">"), Ident("S")>>,
     <<Ident("B"), Punct(":"), Ident("V"), Punct("<"), Ident("u"), Punct(","), Ident("u"),
       Punct(">")>>}

\* tokens that cannot begin a generic parameter
BadParamTokens ==
    {Group("Parenthesis", <<>>), Punct(","), Punct("("), Literal("", <<1>>)}

\* A generic parameter list as written: well-formed parameters, then
\*   bad = <<>>      the closing '>'
\*   bad = <<t>>     the token t at the place of a parameter, then '>'
\*   eof             nothing at all: the declaration ends there
\* or, for kind "raw", the tokens in raw; kind "absent" is no list.
WrittenGenerics ==
    [kind : {"list"}, params : SeqUpTo(WrittenParams, MaxParams), comma : BOOLEAN,
        bad : {<<>>}, eof : {FALSE}, raw : {<<>>}]
    \cup [kind : {"list"}, params : SeqUpTo(WrittenParams, MaxParams), comma : {TRUE},
        bad : {<<t>> : t \in BadParamTokens}, eof : {FALSE}, raw : {<<>>}]
    \cup [kind : {"list"}, params : SeqUpTo(WrittenParams, MaxParams), comma : BOOLEAN,
        bad : {<<>>}, eof : {TRUE}, raw : {<<>>}]
    \cup [kind : {"raw"}, params : {<<>>}, comma : {FALSE}, bad : {<<>>}, eof : {FALSE},
        raw : {<<Punct("<"), Ident("const"), Punct(">")>>,
               <<Punct("<"), Punct("'"), Punct(">")>>,
               <<Punct("<"), Ident("T"), Punct(":"), Punct("<"), Punct(")"), Punct(">")>>}]

NoWrittenGenerics ==
    [kind |-> "absent", params |-> <<>>, comma |-> FALSE, bad |-> <<>>, eof |-> FALSE,
     raw |-> <<>>]

RenderGenerics(g) ==
    CASE g.kind = "absent" -> <<>>
      [] g.kind = "raw" -> g.raw
      [] OTHER ->
           <<Punct("<")>> \o Separated(g.params, g.comma) \o g.bad
              \o (IF g.eof THEN <<>> ELSE <<Punct(">")>>)

\* the types fields are written with
WrittenTypes ==
    {<<Ident("u")>>,
     <<Ident("V"), Punct("<"), Ident("u"), Punct(","), Ident("u"), Punct(">")>>,
     <<Ident("fn"), Group("Parenthesis", <<Ident("u"), Punct(","), Ident("u")>>),
       Punct("-"), Punct(">"), Ident("u")>>,
     <<Ident("V"), Punct("<"), Ident("fn"), Group("Parenthesis", <<>>),
       Punct("-"), Punct(">"), Ident("u"), Punct(","), Ident("u"), Punct(">")>>}

\* the names of fields by position
FieldNames ==
    <<"x", "y", "z", "w">>

\* a field as written: visibility none, `pub` or `pub(crate)`, a type, and
\* whether an attribute stands in front
WrittenFields ==
    [vis : {"none", "pub", "pub_crate"}, type : WrittenTypes, attr : {FALSE}]
    \cup [vis : {"none", "pub"}, type : {<<Ident("u")>>}, attr : {TRUE}]

RenderVis(vis) ==
    CASE vis = "pub" -> <<Ident("pub")>>
      [] vis = "pub_crate" -> <<Ident("pub"), Group("Parenthesis", <<Ident("crate")>>)>>
      [] OTHER -> <<>>

TheAttribute ==
    Group("Bracket", <<Ident("a")>>)

OtherAttribute ==
    Group("Bracket", <<Ident("b")>>)

RenderAttr(attr) ==
    IF attr THEN <<Punct("#"), TheAttribute>> ELSE <<>>

RenderNamedField(f, i) ==
    RenderAttr(f.attr) \o RenderVis(f.vis) \o <<Ident(FieldNames[i]), Punct(":")>> \o f.type

RenderNamedFields(fields, last_comma) ==
    Separated([i \in 1..Len(fields) |-> RenderNamedField(fields[i], i)], last_comma)

\* the literals the lexer makes: digits, unsuffixed ("") or with a suffix
LiteralDigits ==
    {<<0>>, <<1>>, <<7>>, <<8>>, <<9>>, <<1, 5>>, <<1, 6>>, <<1, 7>>}

Literals ==
    {Literal(c, digits) : c \in {"", "i64"}, digits \in LiteralDigits}

\* the names of variants by position
VariantNames ==
    <<"A", "B", "C", "D">>

VariantShapes ==
    {"unit", "tuple0", "tuple2", "struct0", "struct2"}

\* a variant as written: its shape, and no discriminant, `= lit` or `= - lit`
PlainVariants ==
    [shape : VariantShapes, form : {"none"}, lit : {Literal("", <<0>>)}]

ValuedVariants ==
    [shape : {"unit", "tuple2", "struct2"}, form : {"pos", "neg"}, lit : Literals]

\* the two fields of the variants that have fields
TwoFields ==
    <<[vis |-> "none", type |-> <<Ident("u")>>, attr |-> FALSE],
      [vis |-> "none", type |-> <<Ident("v")>>, attr |-> FALSE]>>

RenderShape(shape) ==
    CASE shape = "tuple0" -> <<Group("Parenthesis", <<>>)>>
      [] shape = "tuple2" ->
           <<Group("Parenthesis", Separated(<<TwoFields[1].type, TwoFields[2].type>>, FALSE))>>
      [] shape = "struct0" -> <<Group("Brace", <<>>)>>
      [] shape = "struct2" -> <<Group("Brace", RenderNamedFields(TwoFields, FALSE))>>
      [] OTHER -> <<>>

RenderDiscriminant(v) ==
    CASE v.form = "pos" -> <<Punct("="), v.lit>>
      [] v.form = "neg" -> <<Punct("="), Punct("-"), v.lit>>
      [] OTHER -> <<>>

RenderVariant(v, i) ==
    <<Ident(VariantNames[i])>> \o RenderShape(v.shape) \o RenderDiscriminant(v)

RenderVariants(variants, last_comma) ==
    Separated([i \in 1..Len(variants) |-> RenderVariant(variants[i], i)], last_comma)

\* a body as written: named fields, variants, or the tokens in raw
WrittenBody(kind, fields, variants, comma, raw) ==
    [kind |-> kind, fields |-> fields, variants |-> variants, comma |-> comma, raw |-> raw]

RawBody(raw) ==
    WrittenBody("raw", <<>>, <<>>, FALSE, raw)

NamedBodies ==
    {WrittenBody("named", fields, <<>>, comma, <<>>) :
        fields \in SeqUpTo(WrittenFields, MaxFields), comma \in BOOLEAN}

VariantBodies ==
    {WrittenBody("variants", <<>>, variants, comma, <<>>) :
        variants \in SeqUpTo(PlainVariants, MaxVariants), comma \in BOOLEAN}
    \cup {WrittenBody("variants", <<>>, <<v>> \o more, FALSE, <<>>) :
        v \in ValuedVariants,
        more \in {<<>>, <<[shape |-> "unit", form |-> "none", lit |-> Literal("", <<0>>)]>>}}

RenderBody(b) ==
    CASE b.kind = "named" -> <<Group("Brace", RenderNamedFields(b.fields, b.comma))>>
      [] b.kind = "variants" -> <<Group("Brace", RenderVariants(b.variants, b.comma))>>
      [] OTHER -> b.raw

\* a declaration as written
Written(attrs, vis, head, generics, where, body) ==
    [attrs |-> attrs, vis |-> vis, head |-> head, generics |-> generics,
     where |-> where, body |-> body]

RawAttrs ==
    {<<>>,
     <<Punct("#"), TheAttribute>>,
     <<Punct("#"), Punct("#"), TheAttribute>>,
     <<Punct("#"), TheAttribute, Punct("#"), OtherAttribute>>,
     <<Punct("#"), Group("Parenthesis", <<Ident("a")>>)>>,
     <<Punct("#"), Ident("a")>>}

RawVis ==
    {<<>>, <<Ident("pub")>>, <<Ident("pub"), Group("Parenthesis", <<Ident("crate")>>)>>}

StructFoo ==
    <<Ident("struct"), Ident("Foo")>>

EnumFoo ==
    <<Ident("enum"), Ident("Foo")>>

RawHeads ==
    {StructFoo, EnumFoo,
     <<Ident("fn"), Ident("foo")>>,
     <<Ident("struct")>>,
     <<Ident("trait")>>,
     <<Group("None", <<Ident("union")>>), Ident("Foo")>>,
     <<Group("Parenthesis", <<>>)>>}

\* test/src/main.rs: `pub struct DefaultGeneric<T = ()> { pub t: T }`
DefaultGeneric ==
    Written(<<>>, <<Ident("pub")>>, <<Ident("struct"), Ident("DefaultGeneric")>>,
            [kind |-> "raw", params |-> <<>>, comma |-> FALSE, bad |-> <<>>, eof |-> FALSE,
             raw |-> <<Punct("<"), Ident("T"), Punct("="), Group("Parenthesis", <<>>),
                       Punct(">")>>],
            <<>>,
            RawBody(<<Group("Brace", <<Ident("pub"), Ident("t"), Punct(":"), Ident("T"),
                                      Punct(",")>>)>>))

RawBodies ==
    {<<Group("Brace", <<>>)>>,
     <<Punct(";")>>,
     <<Group("Parenthesis", <<Ident("u"), Punct(","), Ident("v")>>)>>,
     <<Group("Bracket", <<>>)>>,
     <<>>}

\* more tokens where a body belongs: an empty tuple, a group without
\* delimiters, an identifier
MoreBodies ==
    {<<Group("Parenthesis", <<>>)>>, <<Group("None", <<>>)>>, <<Ident("a")>>}

\* tokens written behind a body
Trailers ==
    {<<Punct(";")>>, <<Ident("a")>>, <<Group("Brace", <<>>)>>}

\* a body and what follows it
FollowedBodies ==
    {body \o trailer :
        body \in {<<Group("Brace", <<>>)>>, <<Punct(";")>>,
                  <<Group("Parenthesis", <<Ident("u"), Punct(","), Ident("v")>>)>>},
        trailer \in Trailers}

WhereClauses ==
    {<<>>, <<Ident("where"), Ident("T"), Punct(":"), Ident("a")>>}

\* `where F : Fn (u) -> u`
FnWhereClause ==
    <<Ident("where"), Ident("F"), Punct(":"), Ident("Fn"),
      Group("Parenthesis", <<Ident("u")>>), Punct("-"), Punct(">"), Ident("u")>>

\* the fields a derive function gives to a struct it generates and parses
\* again: the types `u`, `V<u, u>` and `fn() -> u`
GeneratedFields ==
    {StructField(name, vis, ty) :
        name \in {"a", "b"}, vis \in {"Default", "Pub"},
        ty \in {<<"u">>, <<"V", "<", "u", ",", "u", ">">>,
                 <<"fn", "(", ")", "-", ">", "u">>}}

\* the structs with named fields emitted by a GenStruct
GeneratedStructs ==
    {Written(<<>>, vis, StructFoo, NoWrittenGenerics, <<>>,
             WrittenBody("generated", fields, <<>>, FALSE, <<>>)) :
        vis \in {<<>>, <<Ident("pub")>>},
        fields \in SeqUpTo(GeneratedFields, MaxFields)}

\* the GenStruct that emits a generated struct
GenStructOf(w) ==
    [Scope("Struct", <<w.head[2].c>>) EXCEPT
        !.visibility = IF w.vis = <<>> THEN "Default" ELSE "Pub",
        !.fields = w.body.fields]

\* the declarations: every head with a plain rest, every generic parameter
\* list on a struct, every struct body, every enum body, an enum with every
\* token that can stand where its body belongs, and the inputs that end
\* before the keyword or before the name, a where-clause with a function
\* bound, bodies with tokens behind them
Declarations ==
    {Written(attrs, vis, head, NoWrittenGenerics, <<>>, RawBody(body)) :
        attrs \in RawAttrs, vis \in RawVis, head \in RawHeads,
        body \in {<<Group("Brace", <<>>)>>, <<Punct(";")>>}}
    \cup {Written(<<>>, <<>>, StructFoo, generics, where, RawBody(body)) :
        generics \in {g \in WrittenGenerics : g.bad = <<>> /\ ~g.eof},
        where \in WhereClauses, body \in RawBodies}
    \cup {Written(<<>>, <<>>, StructFoo, generics, where, RawBody(<<Group("Brace", <<>>)>>)) :
        generics \in {g \in WrittenGenerics : g.bad # <<>> \/ g.eof},
        where \in WhereClauses}
    \cup {Written(<<>>, <<>>, StructFoo, NoWrittenGenerics, <<>>, body) : body \in NamedBodies}
    \cup {Written(<<>>, <<>>, EnumFoo, NoWrittenGenerics, <<>>, body) : body \in VariantBodies}
    \cup {Written(<<>>, <<>>, head, NoWrittenGenerics, <<>>, RawBody(body)) :
        head \in {StructFoo, EnumFoo},
        body \in RawBodies \cup MoreBodies \cup FollowedBodies}
    \cup {Written(<<>>, <<>>, head, NoWrittenGenerics, <<>>, RawBody(<<>>)) :
        head \in {<<>>, <<Ident("enum")>>, <<Ident("struct")>>}}
    \cup {Written(<<Punct("#")>>, <<>>, <<>>, NoWrittenGenerics, <<>>, RawBody(<<>>))}
    \cup {Written(<<>>, <<>>, StructFoo, NoWrittenGenerics, FnWhereClause, RawBody(body)) :
        body \in {<<Group("Brace", <<>>)>>,
                  <<Group("Parenthesis", <<Ident("u"), Punct(","), Ident("v")>>)>>}}
    \cup {DefaultGeneric}
    \cup GeneratedStructs

\* the tokens of a declaration: those GenStruct's drop hands to its parent,
\* or those the compiler hands over for what was written
Render(w) ==
    IF w.body.kind = "generated"
    THEN StructTokens(GenStructOf(w)).stream
    ELSE
    w.attrs \o w.vis \o w.head \o RenderGenerics(w.generics)
        \o (IF w.generics.eof THEN <<>> ELSE w.where \o RenderBody(w.body))

----------------------------------------------------------------------------
(* parse/mod.rs: Parse::new, one action for each stage *)

\* the fields of Parse before any stage has filled them
EmptyParse ==
    [attributes |-> <<>>, visibility |-> "Default", datatype |-> "None", name |-> "",
     generics |-> NoGenerics, generic_constraints |-> NoConstraints, body |-> <<>>]

ParseIdle ==
    /\ decl = <<>>
    /\ cursor = <<>>
    /\ stage = "idle"
    /\ parsed = EmptyParse
    /\ perr = NoParseError
    /\ ran = <<>>
    /\ written = Written(<<>>, <<>>, <<>>, NoWrittenGenerics, <<>>, RawBody(<<>>))

\* Parse::new is entered with the tokens of a declaration
ParseStart ==
    \E w \in Declarations :
        /\ written = w
        /\ decl = Render(w)
        /\ cursor = Render(w)
        /\ stage = "attributes"
        /\ parsed = EmptyParse
        /\ perr = NoParseError
        /\ ran = <<>>

\* a stage that continues to the next one whatever it returned
AfterStage_ignore_error(r, next) ==
    CASE r.st \in {"Ok", "Err"} -> next
      [] r.st = "Panic" -> "panicked"
      [] OTHER -> "diverged"

\* the `?` behind every stage: Ok continues with the next stage, Err makes
\* Parse::new return; a panic unwinds and a loop without end stays
AfterStage(r, next) ==
    CASE r.st = "Ok" -> next
      [] r.st = "Err" -> "failed"
      [] r.st = "Panic" -> "panicked"
      [] OTHER -> "diverged"

\* the field of Parse a stage fills with the value it returned
Filled(name, val) ==
    CASE name = "attributes" -> [parsed EXCEPT !.attributes = val]
      [] name = "visibility" -> [parsed EXCEPT !.visibility = val]
      [] name = "datatype" -> [parsed EXCEPT !.datatype = val.datatype, !.name = val.name]
      [] name = "generics" -> [parsed EXCEPT !.generics = val]
      [] name = "constraints" -> [parsed EXCEPT !.generic_constraints = val]
      [] OTHER -> [parsed EXCEPT !.body = val]

\* what every stage does with the outcome r of its parsing function
Ran(name, r, next) ==
    /\ stage = name
    /\ stage' = AfterStage(r, next)
    /\ cursor' = r.rest
    /\ perr' = r.err
    /\ parsed' = IF r.st = "Ok" THEN Filled(name, r.val) ELSE parsed
    /\ ran' = Append(ran, [stage |-> name, start |-> Len(cursor), stop |-> Len(r.rest),
                           st |-> r.st])
    /\ UNCHANGED <<decl, written>>
    /\ UNCHANGED <<builderVars, scanVars, genVars, errVars>>

TakeAttributes ==
    Ran("attributes", Attribute_try_take("Container", cursor), "visibility")

TakeVisibility ==
    Ran("visibility", Visibility_try_take(cursor), "datatype")

TakeDataType ==
    Ran("datatype", DataType_take(cursor), "generics")

TakeGenerics ==
    Ran("generics", Generics_try_take(cursor), "constraints")

TakeGenericConstraints ==
    Ran("constraints", GenericConstraints_try_take(cursor), "body")

TakeStructBody ==
    /\ parsed.datatype = "Struct"
    /\ Ran("body", StructBody_take(cursor), "done")

TakeEnumBody ==
    /\ parsed.datatype = "Enum"
    /\ Ran("body", EnumBody_take(cursor), "done")

----------------------------------------------------------------------------
(* error.rs: an Error turned into the tokens of `compile_error!{"..."}`.    *)
(* Here every token carries its span, and a Group's s holds such tokens.   *)

\* Span::call_site()
CallSite == "call_site"

\* the spans an error can point to: the call site and places in the input
Spans == {CallSite, "s1", "s2", "s3"}

\* Option<Span>
NoSpan ==
    [some |-> FALSE, at |-> CallSite]

SomeSpan(span) ==
    [some |-> TRUE, at |-> span]

\* an Error: kind, the span it holds if any, and the text it carries
\* (`expected`, the code given to push_parsed, or the custom message)
ErrorValue(kind, span, text) ==
    [kind |-> kind, span |-> span, text |-> text]

ErrorValues ==
    {ErrorValue(kind, SomeSpan(span), "") :
        kind \in {"UnknownDataType", "ExpectedIdent"}, span \in Spans}
    \cup {ErrorValue("InvalidRustSyntax", SomeSpan(span), expected) :
        span \in Spans, expected \in {"ident", "'<'"}}
    \cup {ErrorValue("PushParse", NoSpan, code) : code \in {"(", ")"}}
    \cup {ErrorValue("Custom", span, msg) :
        span \in {NoSpan} \cup {SomeSpan(sp) : sp \in Spans}, msg \in {"e1", "e2"}}

\* Display for Error, as the pieces the message is written from (the
\* backquotes of the PushParse message are left out)
to_string(e) ==
    CASE e.kind = "UnknownDataType" ->
            <<"Unknown data type, only enum and struct are supported">>
      [] e.kind = "InvalidRustSyntax" -> <<"Invalid rust syntax, expected ", e.text>>
      [] e.kind = "ExpectedIdent" -> <<"Expected ident">>
      [] e.kind = "PushParse" ->
            <<"Invalid code passed to StreamBuilder::push_parsed: ", e.text>>
      [] OTHER -> <<e.text>>

\* a token made by Ident::new, Punct::new, Group::new or Literal::string with
\* the given span
Spanned(t, span) ==
    [k |-> t.k, c |-> t.c, s |-> t.s, span |-> span]

\* StreamBuilder::lit_str
SB_lit_str(s, str) ==
    s \o <<Spanned(Tok("Literal", str, <<>>), CallSite)>>

\* StreamBuilder::set_span_on_all_tokens: set_span on each token of the
\* stream; on a Group it sets the span of the delimiters
set_span_on_all_tokens(s, span) ==
    [i \in 1..Len(s) |-> [s[i] EXCEPT !.span = span]]

\* Error::throw_with_span
throw_with_span(e, span) ==
    set_span_on_all_tokens(
        <<Spanned(Ident("compile_error"), CallSite),
          Spanned(Punct("!"), CallSite),
          Spanned(Group("Brace", SB_lit_str(<<>>, to_string(e))), CallSite)>>,
        span)

\* Error::into_token_stream
into_token_stream(e) ==
    throw_with_span(e, IF e.span.some THEN e.span.at ELSE CallSite)

NotThrown ==
    [call |-> "none", span |-> CallSite, stream |-> <<>>]

ErrIdle ==
    /\ error = ErrorValue("None", NoSpan, "")
    /\ thrown = NotThrown

\* an Error has been returned to the derive function
ErrStart ==
    /\ error \in ErrorValues
    /\ thrown = NotThrown

\* the derive function calls error.into_token_stream()
IntoTokenStream ==
    /\ thrown.call = "none"
    /\ thrown' = [call |-> "into_token_stream", span |-> CallSite,
                  stream |-> into_token_stream(error)]
    /\ UNCHANGED error
    /\ UNCHANGED <<builderVars, scanVars, genVars, parseVars>>

\* the derive function calls error.throw_with_span(span)
ThrowWithSpan ==
    /\ thrown.call = "none"
    /\ \E span \in Spans :
          thrown' = [call |-> "throw_with_span", span |-> span,
                    stream |-> throw_with_span(error, span)]
    /\ UNCHANGED error
    /\ UNCHANGED <<builderVars, scanVars, genVars, parseVars>>

----------------------------------------------------------------------------
(* Specifications of the builder, the scanner, the generator, the parser *)
(* and the error conversion                                              *)

BuilderInit ==
    /\ ErrIdle
    /\ BuilderIdle
    /\ ScanIdle
    /\ GenIdle
    /\ ParseIdle

BuilderNext ==
    \/ CallPunct
    \/ CallIdentStr
    \/ CallPushParsed
    \/ CallGroup

SpecBuilder ==
    BuilderInit /\ [][BuilderNext]_vars

ScanInit ==
    /\ ErrIdle
    /\ ScanStart
    /\ BuilderIdle
    /\ GenIdle
    /\ ParseIdle

ScanNext ==
    \/ ScanPunct
    \/ ScanGroup
    \/ ScanOther
    \/ ScanEnd

SpecScan ==
    ScanInit /\ [][ScanNext]_vars

GenInit ==
    /\ ErrIdle
    /\ GenStart
    /\ BuilderIdle
    /\ ScanIdle
    /\ ParseIdle

GenNext ==
    \/ OpenMod
    \/ OpenStruct
    \/ OpenEnum
    \/ OpenImpl
    \/ OpenImplFor
    \/ OpenImplForWithLifetimes
    \/ MakePub
    \/ MakeTuple
    \/ MakeZst
    \/ AddField
    \/ AddPubField
    \/ GenerateFn
    \/ GenerateConst
    \/ ImplType
    \/ ImplOuterAttr
    \/ ImplInnerAttr
    \/ Impl_modify_generic_constraints
    \/ ImplFor_modify_generic_constraints
    \/ DropScope
    \/ Finish
    \/ DropGenerator

SpecGen ==
    GenInit /\ [][GenNext]_vars

ErrInit ==
    /\ ErrStart
    /\ BuilderIdle
    /\ ScanIdle
    /\ GenIdle
    /\ ParseIdle

ErrNext ==
    \/ IntoTokenStream
    \/ ThrowWithSpan

SpecError ==
    ErrInit /\ [][ErrNext]_vars

ParseInit ==
    /\ ErrIdle
    /\ ParseStart
    /\ BuilderIdle
    /\ ScanIdle
    /\ GenIdle

ParseNext ==
    \/ TakeAttributes
    \/ TakeVisibility
    \/ TakeDataType
    \/ TakeGenerics
    \/ TakeGenericConstraints
    \/ TakeStructBody
    \/ TakeEnumBody

SpecParse ==
    ParseInit /\ [][ParseNext]_vars

----------------------------------------------------------------------------
(* Claims about the scopes of a Generator, checked under SpecGen *)

\* C1: sibling scopes are flushed in the order they were opened.  For every
\* live parent scope (Generator, GenerateMod, GenStruct, GenEnum) the buffer
\* it collects its children in is the concatenation, in the order the
\* children were opened, of the tokens each closed child composed: a child
\* opened and closed after another has its tokens immediately after the
\* other's.
C1_SiblingOrder ==
    \A i \in 1..Len(scopes) :
        scopes[i].kind \in ParentKinds =>
            ParentBuffer(scopes[i]) = Concat(scopes[i].kids)

\* a parent other than the Generator has had two children opened and closed
\* one after the other, and they composed different, non-empty tokens
C1_Witness ==
    \E i \in 1..Len(scopes) :
        /\ scopes[i].kind \in {"Mod", "Struct", "Enum"}
        /\ Len(scopes[i].kids) = 2
        /\ scopes[i].kids[1] # <<>>
        /\ scopes[i].kids[2] # <<>>
        /\ scopes[i].kids[1] # scopes[i].kids[2]

\* C2: nothing is flushed on an error path.  When an Impl or ImplFor is
\* dropped because the derive function returned early with an error, the
\* parent's buffer afterwards is what it was when the scope was opened.
C2_NothingFlushedOnError ==
    (closed.kind \in {"Impl", "ImplFor"} /\ closed.mode = "err") =>
        closed.after = closed.at_open

\* the header keyword of a scope kind's composed unit
Keyword(kind) ==
    CASE kind = "Struct" -> "struct"
      [] kind = "Enum" -> "enum"
      [] kind = "Mod" -> "mod"
      [] OTHER -> "impl"

\* the positions of toks that hold the identifier name
Occurrences(toks, name) ==
    {i \in 1..Len(toks) : toks[i] = Ident(name)}

\* the positions of toks that hold a brace group
BraceGroups(toks) ==
    {i \in 1..Len(toks) : toks[i].k = "Group" /\ toks[i].c = "Brace"}

\* where the header keyword of the unit closed last stands: after the outer
\* attributes of an Impl, each '#' and a group, and after `pub` on a public
\* struct; first otherwise
KeywordAt ==
    2 * Len(closed.scope.outer_attr)
        + (IF closed.scope.visibility = "Pub" THEN 2 ELSE 1)

\* C3: a scope (Impl, ImplFor, GenStruct, GenEnum, GenerateMod) that is
\* closed while the derive function runs normally, and whose drop returns,
\* appends exactly one composed unit to its parent: the parent's buffer
\* afterwards is its buffer before followed by one unit, and the unit starts
\* one item, with the header keyword of the scope's kind first (after the
\* outer attributes of an Impl, after `pub` on a public struct) and one group holding the scope's items (a brace
\* group, for a tuple struct a parenthesis group and ';', for a zero-sized
\* struct only ';'); the items a struct or enum collected follow it.
C3_FlushedOnce ==
    (closed.kind \in {"Impl", "ImplFor", "Struct", "Enum", "Mod"}
        /\ closed.mode = "run" /\ ~closed.panicked) =>
        /\ closed.after = closed.before \o closed.unit
        /\ closed.unit # <<>>
        /\ closed.unit[KeywordAt] = Ident(Keyword(closed.kind))
        /\ closed.kind \in {"Impl", "ImplFor", "Mod"} =>
              BraceGroups(closed.unit) = {Len(closed.unit)}
        /\ closed.kind \in {"Struct", "Enum"} =>
              /\ Occurrences(closed.unit, Keyword(closed.kind)) = {KeywordAt}
              /\ closed.scope.struct_type = "Named" =>
                    KeywordAt + 2 \in BraceGroups(closed.unit)
              /\ closed.scope.struct_type = "Unnamed" =>
                    /\ closed.unit[KeywordAt + 2].k = "Group"
                    /\ closed.unit[KeywordAt + 3] = Punct(";")
              /\ closed.scope.struct_type = "Zst" =>
                    closed.unit[KeywordAt + 2] = Punct(";")

\* a scope without children was closed normally onto a parent that already
\* held tokens
C3_Witness ==
    /\ closed.kind \in {"Impl", "ImplFor", "Struct", "Enum", "Mod"}
    /\ closed.mode = "run"
    /\ ~closed.panicked
    /\ closed.before # <<>>
    /\ closed.unit[Len(closed.unit)] = Group("Brace", <<>>)

\* C4: a Generator dropped with a non-empty stream, finish not having been
\* called and the thread not already panicking, panics in its drop.
C4_DropPanics ==
    (closed.kind = "Generator" /\ closed.mode # "panic" /\ closed.before # <<>>) =>
        gen_drop = "panicked"

----------------------------------------------------------------------------
(* Claims about StreamBuilder, checked under SpecBuilder *)

\* C5: StreamBuilder::group is all-or-nothing.  After a group call whose
\* callback returned an error the builder holds exactly the tokens it held
\* before the call and the call returned the callback's error; after a group
\* call whose callback succeeded the builder holds its former tokens followed
\* by exactly one Group token with the given delimiter, whose inner stream is
\* the callback's tokens in order.
C5_GroupAllOrNothing ==
    call.op = "group" =>
        /\ call.cb.res = "Err" =>
              /\ builder = prev
              /\ ret = [st |-> "Err", err |-> call.cb.err]
        /\ call.cb.res = "Ok" =>
              /\ ret.st = "Ok"
              /\ Len(builder) = Len(prev) + 1
              /\ SubSeq(builder, 1, Len(prev)) = prev
              /\ builder[Len(builder)] = Group(call.delim, call.cb.toks)

\* a failing callback that had already pushed a token was passed to group on
\* a non-empty builder
C5_Witness ==
    /\ call.op = "group"
    /\ call.cb.res = "Err"
    /\ call.cb.toks # <<>>
    /\ prev # <<>>
    /\ ret.st = "Err"

\* the text tokenizes: its parentheses balance
RECURSIVE Balanced(_, _)
Balanced(text, depth) ==
    IF text = <<>>
    THEN depth = 0
    ELSE IF Head(text) = "("
    THEN Balanced(Tail(text), depth + 1)
    ELSE IF Head(text) = ")"
    THEN depth > 0 /\ Balanced(Tail(text), depth - 1)
    ELSE Balanced(Tail(text), depth)

RECURSIVE Leaves(_)
\* the identifiers and punctuation of a token sequence in order, groups
\* replaced by their delimited contents
Leaves(toks) ==
    IF toks = <<>>
    THEN <<>>
    ELSE LET t == Head(toks)
         IN  (IF t.k = "Group" THEN <<"(">> \o Leaves(t.s) \o <<")">> ELSE <<t.c>>)
                 \o Leaves(Tail(toks))

----------------------------------------------------------------------------
(* Claims about read_tokens_until_punct, checked under SpecScan *)

IsOpener(t) ==
    t.k = "Punct" /\ t.c \in {"<", "(", "[", "{"}

IsCloser(t) ==
    t.k = "Punct" /\ t.c \in {">", ")", "]", "}"}

\* token i of src is the '>' of an arrow: it directly follows a '-'
ArrowAt(src, i) ==
    /\ i > 1
    /\ src[i].k = "Punct" /\ src[i].c = ">"
    /\ src[i - 1].k = "Punct" /\ src[i - 1].c = "-"

RECURSIVE DepthBefore(_, _)
\* the bracket depth at which token i of src stands: the opening brackets
\* before it minus the closing brackets before it, arrows not counted
DepthBefore(src, i) ==
    IF i <= 1
    THEN 0
    ELSE DepthBefore(src, i - 1)
            + (IF IsOpener(src[i - 1]) THEN 1
               ELSE IF IsCloser(src[i - 1]) /\ ~ArrowAt(src, i - 1) THEN -1
               ELSE 0)

\* token i of src is a punctuation whose character is a terminator and that
\* stands at bracket depth zero
TerminatorAt(src, i, terminators) ==
    /\ src[i].k = "Punct"
    /\ Contains(terminators, src[i].c)
    /\ DepthBefore(src, i) = 0

\* the same, and the token is neither an opening bracket nor an arrow's '>'
PlainTerminatorAt(src, i, terminators) ==
    /\ TerminatorAt(src, i, terminators)
    /\ ~IsOpener(src[i])
    /\ ~ArrowAt(src, i)

\* the scan copied a prefix of its input and left the rest unconsumed
CopiedPrefix ==
    /\ Len(result) + Len(input) = Len(source)
    /\ result = SubSeq(source, 1, Len(result))
    /\ input = SubSeq(source, Len(result) + 1, Len(source))

\* C7 as first stated: a scan that returns Ok has copied, in order, exactly
\* the tokens before the first punctuation that is a terminator character at
\* bracket depth zero, and that punctuation is the next unconsumed token.
C7_Original ==
    scan = "Ok" =>
        /\ CopiedPrefix
        /\ \A i \in 1..Len(result) : ~TerminatorAt(source, i, expected_puncts)
        /\ (input # <<>> /\ Head(input).k = "Punct") =>
              TerminatorAt(source, Len(result) + 1, expected_puncts)

\* C7 (amended): a scan that returns Ok has copied, in order, exactly the
\* tokens before the first punctuation at bracket depth zero whose character
\* is a terminator and that is neither an opening bracket character nor the
\* '>' of an arrow; that punctuation is left as the next unconsumed token.  A
\* terminator character met while an opening bracket is unclosed is copied
\* and does not end the scan.
C7_StopsAtFirstTerminator ==
    scan = "Ok" =>
        /\ CopiedPrefix
        /\ \A i \in 1..Len(result) : ~PlainTerminatorAt(source, i, expected_puncts)
        /\ (input # <<>> /\ Head(input).k = "Punct") =>
              PlainTerminatorAt(source, Len(result) + 1, expected_puncts)

\* the scan copied a terminator character nested in brackets and then
\* stopped in front of a terminator at depth zero
C7_Witness ==
    /\ scan = "Ok"
    /\ input # <<>>
    /\ Head(input).k = "Punct"
    /\ Contains(expected_puncts, Head(input).c)
    /\ \E i \in 1..Len(result) :
          /\ result[i] = Punct(",")
          /\ Contains(expected_puncts, ",")
          /\ DepthBefore(source, i) > 0

\* the opening bracket a closing bracket pairs with
Opener(ch) ==
    CASE ch = ">" -> "<"
      [] ch = ")" -> "("
      [] ch = "]" -> "["
      [] ch = "}" -> "{"

\* the next token is a '>' that directly follows a copied '-'
ArrowNext ==
    /\ input # <<>>
    /\ Head(input).k = "Punct" /\ Head(input).c = ">"
    /\ result # <<>>
    /\ result[Len(result)].k = "Punct" /\ result[Len(result)].c = "-"

\* the next token is a closing bracket (no arrow) and the innermost open
\* bracket is of another kind
MismatchNext ==
    /\ input # <<>>
    /\ IsCloser(Head(input))
    /\ ~ArrowNext
    /\ open_brackets # <<>>
    /\ open_brackets[Len(open_brackets)] # Opener(Head(input).c)

\* C8: when a closing bracket pops an opener of a different kind, the scan
\* returns an InvalidRustSyntax error value: it neither panics nor goes on.
C8_MismatchIsError ==
    [][(scan = "loop" /\ MismatchNext) => scan' = "Err"]_vars

\* C9: a '>' whose immediately preceding copied token is the punctuation '-'
\* is copied as ordinary punctuation: the step leaves the bracket stack as it
\* is, raises no error and does not end the scan, whatever the terminators
\* and the stack are.
C9_ArrowIsCopied ==
    [][(scan = "loop" /\ ArrowNext) =>
          /\ result' = Append(result, Head(input))
          /\ input' = Tail(input)
          /\ open_brackets' = open_brackets
          /\ scan' = "loop"]_vars

\* with '>' a terminator an arrow was copied at depth zero and the scan went
\* on to stop at the ',' behind it
C9_Witness ==
    /\ scan = "Ok"
    /\ Contains(expected_puncts, ">")
    /\ \E i \in 2..Len(result) : ArrowAt(result, i) /\ DepthBefore(result, i) = 0
    /\ input # <<>>
    /\ Head(input) = Punct(",")

\* the next token is a closing bracket character, no bracket is open and the
\* character is not a terminator
UnmatchedCloserNext ==
    /\ input # <<>>
    /\ IsCloser(Head(input))
    /\ open_brackets = <<>>
    /\ ~Contains(expected_puncts, Head(input).c)

\* C11 as first stated: a closing bracket punctuation met while the bracket
\* stack is empty and that is not a terminator makes the scan return an
\* InvalidRustSyntax error; it is not copied and not skipped.
C11_Original ==
    [][(scan = "loop" /\ UnmatchedCloserNext) =>
          /\ scan' = "Err"
          /\ result' = result
          /\ input' = input]_vars

\* C11 (amended): a closing bracket punctuation that is not the '>' of an
\* arrow, met while the bracket stack is empty and not a terminator, makes
\* the scan return an InvalidRustSyntax error; it is not copied and not
\* skipped.
C11_UnmatchedCloserIsError ==
    [][(scan = "loop" /\ UnmatchedCloserNext /\ ~ArrowNext) =>
          /\ scan' = "Err"
          /\ result' = result
          /\ input' = input]_vars

\* the scan returned an error in front of an unmatched closing bracket,
\* after copying a bracket pair that was matched
C11_Witness ==
    /\ scan = "Err"
    /\ UnmatchedCloserNext
    /\ ~ArrowNext
    /\ \E i \in 1..Len(result) : IsCloser(result[i]) /\ ~ArrowAt(result, i)

\* C12: a scan that returns Ok has an empty bracket stack: every opening
\* bracket it copied was closed by a later closing bracket it copied.
C12_OkImpliesBalanced ==
    scan = "Ok" => open_brackets = <<>>

\* the delimiter is the one implied by a terminator character
DelimiterImplied(delim, terminators) ==
    \/ delim = "Parenthesis" /\ Contains(terminators, "(")
    \/ delim = "Bracket" /\ Contains(terminators, "[")
    \/ delim = "Brace" /\ Contains(terminators, "{")

\* C10: a Group token met while the bracket stack is empty ends the scan
\* without being consumed exactly when its delimiter is the one implied by a
\* terminator character; every other Group, and every Group met while the
\* stack is non-empty, is copied as one token.
C10_GroupEndsScan ==
    [][(scan = "loop" /\ input # <<>> /\ Head(input).k = "Group") =>
          IF open_brackets = <<>> /\ DelimiterImplied(Head(input).c, expected_puncts)
          THEN scan' = "Ok" /\ input' = input /\ result' = result
          ELSE /\ scan' = "loop"
               /\ input' = Tail(input)
               /\ result' = Append(result, Head(input))
               /\ open_brackets' = open_brackets]_vars

\* a group whose delimiter is not implied was copied at depth zero, and the
\* scan then stopped in front of a group whose delimiter is implied
C10_Witness ==
    /\ scan = "Ok"
    /\ input # <<>>
    /\ Head(input).k = "Group"
    /\ DelimiterImplied(Head(input).c, expected_puncts)
    /\ \E i \in 1..Len(result) :
          /\ result[i].k = "Group"
          /\ DepthBefore(source, i) = 0

----------------------------------------------------------------------------
(* Claims about the declaration parser, checked under SpecParse *)

\* C13: Parse::new terminates on every finite token sequence.  Every pass
\* of every parsing loop (attribute list, generic parameter list, bracket
\* scan, named-field list, tuple-field list, variant list) either consumes
\* at least one token or leaves the loop, so no stage is ever left in a loop
\* that cannot end, and a stage never hands back more tokens than it was
\* given.
C13_EveryPassConsumes ==
    /\ stage # "diverged"
    /\ \A i \in 1..Len(ran) : ran[i].st # "Diverge"
    /\ ran # <<>> => Len(cursor) <= ran[Len(ran)].start

\* Parse::new has returned a struct whose generic parameter list, where
\* clause and tuple body each took their loop through more than one pass
C13_Witness ==
    /\ stage = "done"
    /\ parsed.datatype = "Struct"
    /\ parsed.generics.some
    /\ Len(parsed.generics.list) = 2
    /\ parsed.generic_constraints.some
    /\ parsed.body.kind = "Tuple"
    /\ Len(parsed.body.list) = 2

\* C14: the parser never panics on malformed input.  Whenever a token does
\* not have the shape a parsing step assumes (in particular when `const` in
\* a generic parameter list is not followed by an identifier), Parse::new
\* returns an error value: no stage ends in a panic.
C14_NeverPanics ==
    /\ stage # "panicked"
    /\ \A i \in 1..Len(ran) : ran[i].st # "Panic"

\* the token that came next when the i-th stage run began
FirstToken(i) ==
    decl[Len(decl) - ran[i].start + 1]

\* C15: DataType::take returns UnknownDataType carrying the location of the
\* keyword, and not InvalidRustSyntax, whenever the first token it meets is
\* an identifier other than `struct` or `enum`: the keyword+name stage then
\* fails, and the error Parse::new returns is UnknownDataType at the very
\* token the stage began with.
C15_UnknownKeyword ==
    \A i \in 1..Len(ran) :
        (/\ ran[i].stage = "datatype"
         /\ ran[i].start > 0
         /\ FirstToken(i).k = "Ident"
         /\ FirstToken(i).c \notin {"struct", "enum"})
        => /\ ran[i].st = "Err"
           /\ stage = "failed"
           /\ perr = [kind |-> "UnknownDataType", left |-> ran[i].start, lvl |-> 0]

\* `fn` was met as the keyword after an attribute or a visibility had been
\* consumed, and Parse::new returned UnknownDataType
C15_Witness ==
    /\ stage = "failed"
    /\ ran[Len(ran)].stage = "datatype"
    /\ ran[Len(ran)].start < Len(decl)
    /\ FirstToken(Len(ran)) = Ident("fn")
    /\ perr.kind = "UnknownDataType"

\* the stages of Parse::new in the order of its source
StageOrder ==
    <<"attributes", "visibility", "datatype", "generics", "constraints", "body">>

\* the last n tokens of the declaration
Suffix(n) ==
    SubSeq(decl, Len(decl) - n + 1, Len(decl))

\* C16: Parse::new runs its stages in the fixed order attributes,
\* visibility, keyword+name, generics, where-clause, body, each stage
\* starting at the cursor position where the previous one stopped; it
\* returns the error of the first stage that fails without running any later
\* stage, and returns a Parse value only if every stage succeeded.
C16_StagesInOrder ==
    /\ Len(ran) <= Len(StageOrder)
    /\ \A i \in 1..Len(ran) :
          /\ ran[i].stage = StageOrder[i]
          /\ ran[i].start = IF i = 1 THEN Len(decl) ELSE ran[i - 1].stop
          /\ i < Len(ran) => ran[i].st = "Ok"
    /\ stage \in {"done", "failed", "panicked", "diverged"}
          \/ (stage = StageOrder[Len(ran) + 1] /\ cursor = Suffix(Len(cursor)))
    /\ stage = "failed" <=> (ran # <<>> /\ ran[Len(ran)].st = "Err")
    /\ perr.kind # "None" <=> stage = "failed"
    /\ stage = "done" =>
          /\ Len(ran) = Len(StageOrder)
          /\ \A i \in 1..Len(ran) : ran[i].st = "Ok"

\* the generics stage failed after three stages had succeeded and consumed
\* tokens, and Parse::new returned its error
C16_Witness ==
    /\ stage = "failed"
    /\ Len(ran) = 4
    /\ ran[4].start < Len(decl)
    /\ perr.kind = "InvalidRustSyntax"

\* the declaration was written with a generic parameter list that has, at
\* the place of a parameter, a token that cannot begin one, or nothing
MalformedList ==
    /\ written.generics.kind = "list"
    /\ written.generics.bad # <<>> \/ written.generics.eof

\* where that token stands, counted from the end of the declaration; the
\* opening '<' when the declaration ends instead
MalformedAt ==
    IF written.generics.eof
    THEN Len(RenderGenerics(written.generics))
    ELSE 2 + Len(written.where) + Len(RenderBody(written.body))

\* C17: Generics::try_take, after the opening '<', returns InvalidRustSyntax
\* whenever the next token at a parameter position is neither a lifetime
\* sigil, a closing '>', nor an identifier (including a group such as `()`
\* and end of input); it neither loops nor panics.  The error carries the
\* location of that token (of the '<' at end of input), whatever well-formed
\* parameters came before it.
C17_BadParameterIsError ==
    (MalformedList /\ Len(ran) >= 4)
    => /\ ran[4].stage = "generics"
       /\ ran[4].st = "Err"
       /\ stage = "failed"
       /\ perr = [kind |-> "InvalidRustSyntax", left |-> MalformedAt, lvl |-> 0]

\* the group `()` stood behind two well-formed parameters and Parse::new
\* returned the error of the generics stage
C17_Witness ==
    /\ Len(ran) = 4
    /\ stage = "failed"
    /\ written.generics.kind = "list"
    /\ written.generics.bad = <<Group("Parenthesis", <<>>)>>
    /\ Len(written.generics.params) = 2

\* what the i-th field written stands for
WrittenField(f, i) ==
    Field(FieldNames[i],
          IF f.vis = "none" THEN "Default" ELSE "Pub",
          f.type,
          IF f.attr THEN <<Attribute("Field", TheAttribute)>> ELSE <<>>)

\* C18: StructBody::take on a brace group holding n well-formed fields
\* (`[attributes] [pub...] name : type`, separated by commas, trailing comma
\* optional) succeeds and returns the named shape with exactly n entries in
\* source order; entry i carries the i-th name, visibility Pub iff a `pub`
\* form was written (else Default), and as type exactly the tokens written
\* for it, which are those up to the next depth-zero comma.
C18_NamedFields ==
    (written.body.kind = "named" /\ Len(ran) = 6)
    => /\ stage = "done"
       /\ parsed.body =
             Fields("Struct",
                    [i \in 1..Len(written.body.fields) |->
                        WrittenField(written.body.fields[i], i)])

\* a struct with a `pub(crate)` field and a field whose type holds a comma
\* inside angle brackets has been parsed
C18_Witness ==
    /\ stage = "done"
    /\ written.body.kind = "named"
    /\ Len(written.body.fields) = 2
    /\ written.body.fields[1].vis = "pub_crate"
    /\ written.body.fields[2].vis = "none"
    /\ Punct(",") \in {written.body.fields[2].type[j] :
                          j \in 1..Len(written.body.fields[2].type)}
    /\ Len(parsed.body.list) = 2

\* the fields a variant of the given shape was written with
WrittenShape(shape) ==
    CASE shape = "tuple0" -> Fields("Tuple", <<>>)
      [] shape = "tuple2" ->
           Fields("Tuple", [i \in 1..2 |-> Field("", "Default", TwoFields[i].type, <<>>)])
      [] shape = "struct0" -> Fields("Struct", <<>>)
      [] shape = "struct2" ->
           Fields("Struct", [i \in 1..2 |-> WrittenField(TwoFields[i], i)])
      [] OTHER -> Fields("None", <<>>)

\* no variant of the enum was written with a discriminant
NoDiscriminants ==
    \A i \in 1..Len(written.body.variants) : written.body.variants[i].form = "none"

\* C19: EnumBody::take returns one variant per variant written, in source
\* order, and the shape of each is chosen per variant: fields is None for a
\* bare name, Some(Tuple) for a parenthesized group (also when empty) and
\* Some(Struct) for a braced group (also when empty), with the fields in
\* source order.  An enum written without discriminants always parses.
C19_Variants ==
    (written.body.kind = "variants" /\ Len(ran) = 6)
    => /\ NoDiscriminants => stage = "done"
       /\ stage = "done" =>
             /\ Len(parsed.body) = Len(written.body.variants)
             /\ \A i \in 1..Len(parsed.body) :
                   /\ parsed.body[i].name = VariantNames[i]
                   /\ parsed.body[i].fields = WrittenShape(written.body.variants[i].shape)

\* an enum whose first variant has two tuple fields and whose second has an
\* empty brace group has been parsed
C19_Witness ==
    /\ stage = "done"
    /\ written.body.kind = "variants"
    /\ Len(written.body.variants) = 2
    /\ written.body.variants[1].shape = "tuple2"
    /\ written.body.variants[2].shape = "struct0"
    /\ Len(parsed.body) = 2

\* the smallest value of the signed integer type that stands for i64
MinI64 ==
    -MaxI64 - 1

\* C20: for an enum variant written `= L` the stored discriminant is the
\* literal L; for a variant written `= - L` the stored discriminant is the
\* literal whose integer value is the negation of L's value, for every
\* resulting discriminant representable as a 64-bit signed integer; this
\* holds for unit, tuple and struct-shaped variants alike.
C20_Discriminants ==
    \A i \in 1..Len(written.body.variants) :
        LET v == written.body.variants[i]
        IN  (/\ written.body.kind = "variants"
             /\ Len(ran) = 6
             /\ \/ v.form = "pos"
                \/ v.form = "neg" /\ -FromDigits(v.lit.s) >= MinI64)
            => /\ stage = "done"
               /\ Len(parsed.body[i].value) = 1
               /\ v.form = "pos" => parsed.body[i].value[1] = v.lit
               /\ v.form = "neg" =>
                     LiteralValue(parsed.body[i].value[1]) = -FromDigits(v.lit.s)

\* the parameter a written parameter stands for: its kind, its name and the
\* tokens of its bound list
WrittenParam(p) ==
    CASE p[1] = Punct("'") -> GenericParam("Lifetime", p[2].c, SubSeq(p, 4, Len(p)))
      [] p[1] = Ident("const") -> GenericParam("Const", p[2].c, SubSeq(p, 4, Len(p)))
      [] OTHER -> GenericParam("Generic", p[1].c, SubSeq(p, 3, Len(p)))

\* the declaration was written with a well-formed generic parameter list
WellFormedList ==
    /\ written.generics.kind = "list"
    /\ written.generics.bad = <<>>
    /\ ~written.generics.eof

\* C21: Generics::try_take returns the generic parameters in exactly the
\* order written, one entry per parameter with its kind (lifetime, type,
\* const) and name, with no deduplication or reordering; commas nested
\* inside a parameter's bound list do not create extra entries.
C21_GenericsInOrder ==
    (WellFormedList /\ Len(ran) >= 4)
    => /\ ran[4].st = "Ok"
       /\ parsed.generics =
             SomeGenerics([i \in 1..Len(written.generics.params) |->
                              WrittenParam(written.generics.params[i])])

\* a list of two parameters of the same name, the first with a comma inside
\* the angle brackets of its bound list, has been parsed
C21_Witness ==
    /\ WellFormedList
    /\ Len(ran) >= 4
    /\ Len(written.generics.params) = 2
    /\ written.generics.params[1][1] = Ident("B")
    /\ written.generics.params[2][1] = Ident("B")
    /\ Len(parsed.generics.list) = 2

\* C22: Parse::new succeeds on a struct whose generic type parameter carries
\* a default (`struct DefaultGeneric<T = ()> { pub t: T }`), yielding a
\* generics list with the single type parameter T.
C22_DefaultGenericParses ==
    (written = DefaultGeneric /\ Len(ran) >= 4)
    => /\ ran[4].st = "Ok"
       /\ parsed.generics.some
       /\ Len(parsed.generics.list) = 1
       /\ parsed.generics.list[1].kind = "Generic"
       /\ parsed.generics.list[1].ident = "T"
       /\ stage \in {"constraints", "body", "done"}

\* a parameter with its bound list, and its bare name
ImplParam(g) ==
    (CASE g.kind = "Lifetime" -> <<Punct("'"), Ident(g.ident)>>
       [] g.kind = "Const" -> <<Ident("const"), Ident(g.ident)>>
       [] OTHER -> <<Ident(g.ident)>>)
    \o (IF g.constraints # <<>> THEN <<Punct(":")>> \o g.constraints ELSE <<>>)

UseParam(g) ==
    IF g.kind = "Lifetime" THEN <<Punct("'"), Ident(g.ident)>> ELSE <<Ident(g.ident)>>

----------------------------------------------------------------------------
(* Claims about what the scopes of a Generator emit, checked under SpecGen *)

\* C24: for a trait implementation with additional lifetimes L on a type
\* with generics G, the impl-position list of the emitted unit is '<', each
\* lifetime of L once, in order and without bounds, then each parameter of G
\* once, in order, then '>'.
C24_AdditionalLifetimes ==
    (/\ closed.kind = "ImplFor"
     /\ closed.scope.lifetimes.some
     /\ ~closed.panicked
     /\ closed.mode \in {"run", "err"}
     /\ scopes[1].generics.some)
    => LET L == closed.scope.lifetimes.list
           G == scopes[1].generics.list
           items == [i \in 1..Len(L) |-> <<Punct("'"), Ident(L[i])>>]
                        \o [i \in 1..Len(G) |-> ImplParam(G[i])]
           expected == <<Ident("impl"), Punct("<")>>
                           \o Separated(items, FALSE) \o <<Punct(">")>>
       IN  /\ Len(closed.unit) >= Len(expected)
           /\ SubSeq(closed.unit, 1, Len(expected)) = expected

\* one field as the claim writes it: `[pub] name : type ,`
EmittedField(f) ==
    (IF f.vis = "Pub" THEN <<Ident("pub")>> ELSE <<>>)
        \o <<Ident(f.name), Punct(":")>> \o FromStr(f.ty).toks \o <<Punct(",")>>

\* C25: a GenStruct with named fields, closed with its drop returning, emits
\* `struct Name` (after `pub` when it was made public), then one brace group
\* holding, for each field in insertion order, `name : type ,` (after `pub`
\* for a field added by add_pub_field).
C25_StructWithFields ==
    (/\ closed.kind = "Struct"
     /\ closed.scope.struct_type = "Named"
     /\ ~closed.panicked)
    => LET sc == closed.scope
           expected ==
               (IF sc.visibility = "Pub" THEN <<Ident("pub")>> ELSE <<>>)
                   \o <<Ident("struct"), Ident(sc.name[1]),
                        Group("Brace",
                              Concat([i \in 1..Len(sc.fields) |->
                                         EmittedField(sc.fields[i])]))>>
       IN  /\ Len(closed.unit) >= Len(expected)
           /\ SubSeq(closed.unit, 1, Len(expected)) = expected

\* a struct with a private field and then a public field of another name was
\* closed
C25_Witness ==
    /\ closed.kind = "Struct"
    /\ closed.scope.struct_type = "Named"
    /\ ~closed.panicked
    /\ Len(closed.scope.fields) = 2
    /\ closed.scope.fields[1].vis = "Default"
    /\ closed.scope.fields[2].vis = "Pub"
    /\ closed.scope.fields[1].name # closed.scope.fields[2].name

----------------------------------------------------------------------------
(* The round trip from GenStruct through Parse::new, checked under SpecParse *)

\* the parsed field a field given to GenStruct should come back as
RoundTripField(f) ==
    Field(f.name, f.vis, FromStr(f.ty).toks, <<>>)

\* C26: the tokens a GenStruct with named fields emits, fed to Parse::new,
\* parse to a struct of the same name and visibility whose body is the named
\* shape with the same field names in the same order, each with the
\* visibility and the type tokens it was added with.
C26_RoundTrip ==
    (written.body.kind = "generated" /\ Len(ran) = 6)
    => /\ stage = "done"
       /\ parsed.datatype = "Struct"
       /\ parsed.name = written.head[2].c
       /\ parsed.visibility = GenStructOf(written).visibility
       /\ parsed.body =
             Fields("Struct",
                    [i \in 1..Len(written.body.fields) |->
                        RoundTripField(written.body.fields[i])])

\* a generated public struct with a public field whose type holds a comma
\* inside angle brackets and a private field with a function type has been
\* parsed
C26_Witness ==
    /\ stage = "done"
    /\ written.body.kind = "generated"
    /\ written.vis # <<>>
    /\ Len(written.body.fields) = 2
    /\ written.body.fields[1].vis = "Pub"
    /\ written.body.fields[1].ty = <<"V", "<", "u", ",", "u", ">">>
    /\ written.body.fields[2].vis = "Default"
    /\ written.body.fields[2].ty = <<"fn", "(", ")", "-", ">", "u">>
    /\ written.body.fields[1].name # written.body.fields[2].name
    /\ Len(parsed.body.list) = 2

----------------------------------------------------------------------------
(* Claims about the members of an impl block, checked under SpecGen *)

\* the tokens of the items of the given kind, in construction order
ItemsOfKind(items, kind) ==
    Concat([i \in 1..Len(SelectSeq(items, LAMBDA it : it.kind = kind)) |->
               SelectSeq(items, LAMBDA it : it.kind = kind)[i].toks])

\* an Impl or ImplFor was dropped last and its drop built and appended a unit
ImplFlushed ==
    /\ closed.kind \in {"Impl", "ImplFor"}
    /\ closed.mode \in {"run", "err"}
    /\ ~closed.panicked

\* C27 as stated: the member items of an impl or trait-impl scope appear in
\* the emitted body, after the inner attributes of an Impl, in the order in
\* which they were constructed.
C27_Original ==
    ImplFlushed =>
        closed.unit[Len(closed.unit)] =
            Group("Brace",
                  Concat(closed.scope.inner_attr)
                     \o Concat([i \in 1..Len(closed.scope.items) |->
                                   closed.scope.items[i].toks]))

\* C27, amended: the emitted body holds, after the inner attributes of an
\* Impl, the associated types, then the constants, then the functions;
\* within each of the three kinds the items are in the order in which they
\* were constructed.
C27_ItemsByKind ==
    ImplFlushed =>
        closed.unit[Len(closed.unit)] =
            Group("Brace",
                  Concat(closed.scope.inner_attr)
                     \o ItemsOfKind(closed.scope.items, "type")
                     \o ItemsOfKind(closed.scope.items, "const")
                     \o ItemsOfKind(closed.scope.items, "fn"))

\* a flushed trait implementation in which a function was constructed and
\* then an associated type
C27_Witness ==
    /\ ImplFlushed
    /\ closed.kind = "ImplFor"
    /\ Len(closed.scope.items) = 2
    /\ closed.scope.items[1].kind = "fn"
    /\ closed.scope.items[2].kind = "type"

----------------------------------------------------------------------------
(* Claims about custom generic constraints, checked under SpecGen *)

\* the clause does not start with a comma and holds no two commas in a row
WellSeparated(toks) ==
    /\ toks # <<>> => toks[1] # Punct(",")
    /\ \A i \in 1..(Len(toks) - 1) :
          ~(toks[i] = Punct(",") /\ toks[i + 1] = Punct(","))

\* C28: after push_constraint, push_parsed_constraint or clear on a parsed
\* where-clause the clause does not start with a comma and consecutive
\* predicates are separated by exactly one comma; a push whose text fails to
\* tokenize leaves the clause as it was.
C28_WhereClauseCommas ==
    \A i \in 1..Len(scopes) :
        \A k \in 1..Len(scopes[i].calls) :
            LET c == scopes[i].calls[k]
            IN  /\ WellSeparated(c.left)
                /\ c.err.kind = "PushParse" => c.left = c.received

\* C29: successive calls of modify_generic_constraints on one impl scope
\* accumulate: a call made when custom constraints are already stored hands
\* them to its callback; a call whose callback returns an error leaves the
\* stored custom constraints as they were.
C29_ModifyAccumulates ==
    \A i \in 1..Len(scopes) :
        \A k \in 1..Len(scopes[i].calls) :
            LET c == scopes[i].calls[k]
            IN  /\ c.before.some => c.received = c.before.constraints
                /\ c.st # "Ok" => c.after = c.before

----------------------------------------------------------------------------
(* Claims about the tokens of an Error, checked under SpecError *)

\* C30: Error::into_token_stream yields exactly one directive: the
\* identifier compile_error, the punctuation '!', and one group holding a
\* single string literal with the error's message; every token of it, the
\* literal inside the group included, carries the error's span, or the
\* call-site span when the error holds none.
C30_CompileError ==
    thrown.call = "into_token_stream"
    => LET span == IF error.span.some THEN error.span.at ELSE CallSite
           out == thrown.stream
       IN  /\ Len(out) = 3
           /\ out[1].k = "Ident" /\ out[1].c = "compile_error"
           /\ out[2].k = "Punct" /\ out[2].c = "!"
           /\ out[3].k = "Group"
           /\ Len(out[3].s) = 1
           /\ out[3].s[1].k = "Literal"
           /\ out[3].s[1].c = to_string(error)
           /\ \A i \in 1..3 : out[i].span = span
           /\ out[3].s[1].span = span

----------------------------------------------------------------------------
(* Claims about attributes on generated items, checked under SpecGen *)

\* the outer attribute `# [text]` stands at positions at and at + 1 of toks
OuterAttrAt(toks, at, text) ==
    /\ Len(toks) > at
    /\ toks[at] = Punct("#")
    /\ toks[at + 1].k = "Group"
    /\ toks[at + 1].c = "Bracket"
    /\ Leaves(toks[at + 1].s) = text

\* C31: each attribute added with GenConst::with_attr is emitted as an outer
\* attribute, '#' followed by a bracket group and no '!', directly before the
\* constant item, in insertion order and before the optional `pub`.
C31_ConstOuterAttrs ==
    \A i \in 1..Len(scopes) : \A j \in 1..Len(scopes[i].items) :
        LET it == scopes[i].items[j]
            n == Len(it.by.attrs)
        IN  it.kind = "const" =>
                /\ \A k \in 1..n : OuterAttrAt(it.toks, 2 * k - 1, it.by.attrs[k])
                /\ Len(it.toks) > 2 * n
                /\ it.toks[2 * n + 1] =
                      IF it.by.vis = "Pub" THEN Ident("pub") ELSE Ident("const")

\* the texts of the stored attributes of the given kind, in insertion order
AttrsOfKind(attr_texts, kind) ==
    LET sel == SelectSeq(attr_texts, LAMBDA a : a.kind = kind)
    IN  [i \in 1..Len(sel) |-> sel[i].text]

\* the inner attribute `# ! [text]` stands at positions at .. at + 2 of toks
InnerAttrAt(toks, at, text) ==
    /\ Len(toks) > at + 1
    /\ toks[at] = Punct("#")
    /\ toks[at + 1] = Punct("!")
    /\ toks[at + 2].k = "Group"
    /\ toks[at + 2].c = "Bracket"
    /\ Leaves(toks[at + 2].s) = text

\* C32: the block of an Impl starts with `# [attr]` for each attribute given
\* to impl_outer_attr, before the `impl` keyword, and its body starts with
\* the inner attribute `# ! [attr]`, a bracket group, for each attribute
\* given to impl_inner_attr; each kind is in insertion order and the inner
\* attributes stand before any constant or function.
C32_ImplAttributes ==
    (ImplFlushed /\ closed.kind = "Impl") =>
        LET outer == AttrsOfKind(closed.scope.attr_texts, "outer")
            inner == AttrsOfKind(closed.scope.attr_texts, "inner")
            body == closed.unit[Len(closed.unit)].s
        IN  /\ \A k \in 1..Len(outer) : OuterAttrAt(closed.unit, 2 * k - 1, outer[k])
            /\ closed.unit[2 * Len(outer) + 1] = Ident("impl")
            /\ \A k \in 1..Len(inner) : InnerAttrAt(body, 3 * k - 2, inner[k])
            /\ SubSeq(body, 3 * Len(inner) + 1, Len(body)) =
                  ItemsOfKind(closed.scope.items, "const")
                      \o ItemsOfKind(closed.scope.items, "fn")

----------------------------------------------------------------------------
(* Claims about the single parsers of Parse::new, checked under SpecParse *)

\* the body stage has run on a tagged union
EnumBodyRan ==
    /\ Len(ran) = 6
    /\ parsed.datatype = "Enum"

\* C33: EnumBody::take accepts as the body of a tagged union only a single
\* brace-delimited group: when the next token is a parenthesis or bracket
\* group, a ';', another token, or the input has ended, the body stage fails
\* with InvalidRustSyntax.
C33_EnumBodyOnlyBrace ==
    (EnumBodyRan
        /\ ~(ran[6].start > 0 /\ FirstToken(6).k = "Group" /\ FirstToken(6).c = "Brace"))
    => /\ ran[6].st = "Err"
       /\ stage = "failed"
       /\ perr.kind = "InvalidRustSyntax"

\* the body stage has run on a record
StructBodyRan ==
    /\ Len(ran) = 6
    /\ parsed.datatype = "Struct"

\* the body stage consumed exactly the group it began with and returned the
\* fields of the given shape
TookGroup(shape) ==
    /\ ran[6].stop = ran[6].start - 1
    /\ stage = "done"
    /\ parsed.body.kind = shape

DataTypeRan ==
    Len(ran) >= 3

\* what consume_ident takes for an identifier: an identifier, or a group
\* holding exactly one identifier
IdentLike(t) ==
    \/ t.k = "Ident"
    \/ t.k = "Group" /\ Len(t.s) = 1 /\ t.s[1].k = "Ident"

\* the identifier consume_ident returns for such a token
IdentOf(t) ==
    IF t.k = "Ident" THEN t.c ELSE t.s[1].c

\* the keyword+name stage returned InvalidRustSyntax
DataTypeWrongToken ==
    /\ ran[3].st = "Err"
    /\ stage = "failed"
    /\ perr.kind = "InvalidRustSyntax"

\* a recognized keyword came first and no name followed it
KeywordWithoutName ==
    /\ ran[3].start > 0
    /\ IdentLike(FirstToken(3))
    /\ IdentOf(FirstToken(3)) \in {"struct", "enum"}
    /\ (ran[3].start = 1 \/ ~IdentLike(Suffix(ran[3].start)[2]))

\* C35 as stated: DataType::take returns InvalidRustSyntax, and not
\* UnknownDataType, when the input is empty, when its first token is not an
\* identifier, or when `struct` or `enum` is not followed by a name.
C35_Original ==
    (DataTypeRan
        /\ (\/ ran[3].start = 0
            \/ ran[3].start > 0 /\ FirstToken(3).k # "Ident"
            \/ KeywordWithoutName))
    => DataTypeWrongToken

\* C35, amended: DataType::take returns InvalidRustSyntax, and not
\* UnknownDataType, when the input is empty, when its first token is neither
\* an identifier nor a group holding exactly one identifier, or when `struct`
\* or `enum` is not followed by a name, itself an identifier or such a group.
C35_WrongToken ==
    (DataTypeRan
        /\ (\/ ran[3].start = 0
            \/ ran[3].start > 0 /\ ~IdentLike(FirstToken(3))
            \/ KeywordWithoutName))
    => DataTypeWrongToken

\* the input `enum` ended after the keyword and Parse::new returned
\* InvalidRustSyntax
C35_Witness ==
    /\ DataTypeRan
    /\ decl = <<Ident("enum")>>
    /\ KeywordWithoutName
    /\ DataTypeWrongToken

\* the i-th stage returned Ok without consuming a token
LeftInPlace(i) ==
    /\ ran[i].st = "Ok"
    /\ ran[i].stop = ran[i].start
    /\ Len(ran) = i => (cursor = Suffix(ran[i].start) /\ stage = StageOrder[i + 1])

\* no generic parameter list begins where the generics stage began
NoGenericsAhead ==
    ~(ran[4].start > 0 /\ FirstToken(4) = Punct("<"))

\* no where-clause begins where the where-clause stage began
NoWhereAhead ==
    ~(ran[5].start > 0 /\ FirstToken(5) = Ident("where"))

\* C36: an absent optional section leaves the cursor where it was.
\* Generics::try_take returns Ok(None) and consumes no token when the next
\* token is not the punctuation '<', and GenericConstraints::try_take returns
\* Ok(None) and consumes no token when the next token is not the identifier
\* `where`; both also at the end of the input.
C36_AbsentSections ==
    /\ (Len(ran) >= 4 /\ NoGenericsAhead) =>
          /\ LeftInPlace(4)
          /\ parsed.generics = NoGenerics
    /\ (Len(ran) >= 5 /\ NoWhereAhead) =>
          /\ LeftInPlace(5)
          /\ parsed.generic_constraints = NoConstraints

\* on `struct Foo a` both optional stages met the identifier `a`, returned
\* None and left it in place for the body stage
C36_Witness ==
    /\ Len(ran) = 5
    /\ decl = StructFoo \o <<Ident("a")>>
    /\ NoGenericsAhead
    /\ NoWhereAhead
    /\ cursor = <<Ident("a")>>

RECURSIVE LeadingAttributes(_, _)
\* How the leading attributes of toks read: whether they are well formed,
\* their groups in source order, and the number of tokens they take.  An
\* attribute is '#' and a bracket group; with skip, a '#' directly followed
\* by another '#' is stepped over.
LeadingAttributes(toks, skip) ==
    LET More(r, group, used) ==
            [ok |-> r.ok, groups |-> group \o r.groups, used |-> r.used + used]
    IN  IF toks = <<>> \/ toks[1] # Punct("#")
        THEN [ok |-> TRUE, groups |-> <<>>, used |-> 0]
        ELSE IF Len(toks) >= 2 /\ toks[2].k = "Group" /\ toks[2].c = "Bracket"
        THEN More(LeadingAttributes(SubSeq(toks, 3, Len(toks)), skip), <<toks[2]>>, 2)
        ELSE IF skip /\ Len(toks) >= 2 /\ toks[2] = Punct("#")
        THEN More(LeadingAttributes(Tail(toks), skip), <<>>, 1)
        ELSE [ok |-> FALSE, groups |-> <<>>, used |-> 0]

\* the attributes stage did with the input what the reading e says
AttributesTakenAs(e) ==
    IF e.ok
    THEN /\ ran[1].st = "Ok"
         /\ ran[1].stop = Len(decl) - e.used
         /\ Len(ran) = 1 => cursor = Suffix(Len(decl) - e.used)
         /\ parsed.attributes =
               [i \in 1..Len(e.groups) |-> Attribute("Container", e.groups[i])]
    ELSE /\ ran[1].st = "Err"
         /\ stage = "failed"
         /\ perr.kind = "InvalidRustSyntax"

\* C37 as stated: Attribute::try_take consumes exactly the leading run of
\* attributes, each '#' and a bracket group, returns them in source order
\* tagged with the given location and leaves the cursor on the first token
\* that is not part of an attribute; a '#' followed by a group that is not a
\* bracket group, by another token or by the end of input yields
\* InvalidRustSyntax.
C37_Original ==
    Len(ran) >= 1 => AttributesTakenAs(LeadingAttributes(decl, FALSE))

\* C37, amended: as stated, but a '#' directly followed by another '#' is
\* consumed and ignored, and the reading goes on at the second '#'.
C37_LeadingAttributes ==
    Len(ran) >= 1 => AttributesTakenAs(LeadingAttributes(decl, TRUE))

\* two attributes in front of `pub struct Foo` were taken in source order
\* and the cursor was left on `pub`
C37_Witness ==
    /\ Len(ran) = 1
    /\ ran[1].st = "Ok"
    /\ parsed.attributes = <<Attribute("Container", TheAttribute),
                             Attribute("Container", OtherAttribute)>>
    /\ cursor # <<>>
    /\ Head(cursor) = Ident("pub")

\* the where-clause stage began at the where-clause as written, a body group
\* was written behind it, and the stage returned Some
WhereClauseTaken ==
    /\ Len(ran) >= 5
    /\ ran[5].st = "Ok"
    /\ parsed.generic_constraints.some
    /\ written.where # <<>>
    /\ ran[5].start = Len(written.where) + 1
    /\ Suffix(ran[5].start) = written.where \o RenderBody(written.body)
    /\ Len(RenderBody(written.body)) = 1
    /\ RenderBody(written.body)[1].k = "Group"
    /\ RenderBody(written.body)[1].c \in {"Brace", "Parenthesis"}

\* C39: when GenericConstraints::try_take returns Some, the captured
\* where-clause is the complete run of tokens between `where` and the body of
\* the declaration, and the next unconsumed token is the body group, also
\* when a constraint holds a parenthesized group at bracket depth zero.
C39_WhereClauseComplete ==
    WhereClauseTaken =>
        /\ parsed.generic_constraints.constraints = Tail(written.where)
        /\ ran[5].stop = 1
        /\ Suffix(ran[5].stop) = RenderBody(written.body)

\* the body stage succeeded
BodyTaken ==
    /\ Len(ran) = 6
    /\ ran[6].st = "Ok"

\* what the body parser of the declaration's kind returns on the token the
\* body stage began with, nothing written behind it
BodyAlone ==
    IF parsed.datatype = "Struct"
    THEN StructBody_take(<<FirstToken(6)>>)
    ELSE EnumBody_take(<<FirstToken(6)>>)

\* the tokens written behind the token the body stage began with
BehindBody ==
    Suffix(ran[6].start - 1)

\* C40: Parse::new never inspects the tokens that follow the body.  Once the
\* body stage has succeeded the result is Ok, the body is the one parsed from
\* the body token alone whatever is written behind it, and the tokens behind
\* it are left unconsumed (with a ';' as the body, the ';' as well).
C40_NothingBehindBody ==
    BodyTaken =>
        /\ stage = "done"
        /\ perr = NoParseError
        /\ ran[6].start > 0
        /\ BodyAlone.st = "Ok"
        /\ parsed.body = BodyAlone.val
        /\ cursor = BodyAlone.rest \o BehindBody

\* the tuple-shaped record `struct Foo (u , v) ;` was parsed with the ';'
\* left unconsumed
C40_Witness ==
    /\ BodyTaken
    /\ stage = "done"
    /\ parsed.datatype = "Struct"
    /\ parsed.body.kind = "Tuple"
    /\ Len(parsed.body.list) = 2
    /\ BehindBody = <<Punct(";")>>
    /\ cursor = <<Punct(";")>>

----------------------------------------------------------------------------
(* Claim about failing steps of FnBuilder::body and GenConst::with_value,  *)
(* checked under SpecGen                                                   *)

\* the texts FnBuilder::body tokenizes, in the order in which it does
FnTexts(f) ==
    f.attrs
        \o Concat([i \in 1..Len(f.generics) |-> f.generics[i].deps])
        \o Concat([i \in 1..Len(f.args) |-> <<f.args[i].name, f.args[i].ty>>])
        \o (IF f.return_type = <<>> THEN <<>> ELSE <<f.return_type>>)

\* the texts GenConst::with_value tokenizes, in the order in which it does
ConstTexts(g) ==
    g.attrs \o <<g.name, g.ty>>

\* the places of the texts that do not tokenize
Untokenizable(texts) ==
    {i \in 1..Len(texts) : ~Balanced(texts[i], 0)}

\* the first text that does not tokenize
FirstUntokenizable(texts) ==
    texts[CHOOSE i \in Untokenizable(texts) : \A j \in Untokenizable(texts) : i <= j]

\* the step left every scope as it was and the derive function has returned e
NothingAdded(e) ==
    /\ scopes' = scopes
    /\ mode' = "err"
    /\ returned' = e

\* what a step that tokenizes texts and then calls cb does to the innermost
\* scope: added says how the scope grows when every step succeeds
ItemOutcome(texts, cb, added) ==
    IF Untokenizable(texts) # {}
    THEN NothingAdded(PushParseError(FirstUntokenizable(texts)))
    ELSE IF cb.res = "Err"
    THEN NothingAdded(cb.err)
    ELSE IF cb.res = "Panic"
    THEN scopes' = scopes /\ mode' = "panic"
    ELSE /\ added
         /\ mode' = "run"
         /\ returned' = NoError
         /\ Len(scopes') = Len(scopes)
         /\ SubSeq(scopes', 1, Len(scopes) - 1) = SubSeq(scopes, 1, Len(scopes) - 1)

\* the innermost scope has one more function and the same constants
FnAdded ==
    LET to == scopes'[Len(scopes)]
    IN  /\ Len(to.fns) = Len(Top.fns) + 1
        /\ SubSeq(to.fns, 1, Len(Top.fns)) = Top.fns
        /\ to.consts = Top.consts

\* the innermost scope has one more constant and the same functions
ConstAdded ==
    LET to == scopes'[Len(scopes)]
    IN  /\ Len(to.consts) = Len(Top.consts) + 1
        /\ SubSeq(to.consts, 1, Len(Top.consts)) = Top.consts
        /\ to.fns = Top.fns

\* C38: FnBuilder::body and GenConst::with_value add their item to the
\* enclosing impl scope if and only if every step succeeded.  When an
\* attribute, generic bound, argument name, type or return type does not
\* tokenize, the scope's functions and constants are unchanged and the
\* PushParse error of the first such text is returned; when the body or
\* value callback returns an error, they are unchanged and that error is
\* returned; otherwise exactly one item is appended to the list of its kind.
C38_AddedIffEveryStep ==
    [][/\ \A f \in FnBuilders, cb \in GenCallbacks :
              FnBuilder_body(f, cb) => ItemOutcome(FnTexts(f), cb, FnAdded)
       /\ \A g \in GenConsts, cb \in GenCallbacks :
              GenConst_with_value(g, cb) => ItemOutcome(ConstTexts(g), cb, ConstAdded)]_vars

\* after one function was added to an impl block, a second FnBuilder::body
\* failed on a text only functions are given, and the block still has the
\* one function and no constant
C38_Witness ==
    /\ mode = "err"
    /\ returned = PushParseError(<<")">>)
    /\ Len(scopes) >= 2
    /\ Top.kind \in {"Impl", "ImplFor"}
    /\ Len(Top.fns) = 1
    /\ Top.consts = <<>>

====
